---- MODULE Spec2Model ----
(***************************************************************************)
(* Verification model of the spec-document core of Claude-Conductor:       *)
(*   src/specs/contracts.py  (SpecTier, ValidationConfig, SpecDocument,    *)
(*                            SpecValidationResult)                        *)
(*   src/specs/parser.py     (SpecParser)                                  *)
(*   src/specs/validator.py  (validate_spec, _check_validation_block)      *)
(*                                                                         *)
(* A markdown document is a sequence of lines (the text split on "\n").    *)
(* A line is a record [kind, word, arg]; kind says which of the shapes the *)
(* regular expressions of the code tell apart the line has, word and arg   *)
(* are its variable parts, kept as sequences of one-character strings so   *)
(* that upper(), lower(), strip() and partition(":") are computed:         *)
(*     header       ## Spec: <word> [<arg>]                                *)
(*     section      ### <word>                                             *)
(*     kv           <word>:<arg>                                           *)
(*     bullet       - <word>                                               *)
(*     edge         - <word> -> <arg>                                      *)
(*     edge_u       - <word> <arrow U+2192> <arg>                          *)
(*     text         <word>          (no colon, no leading dash, hash, grave)   *)
(*     blank        (empty or whitespace only)                             *)
(*     fence_open   three grave accents and yaml (opens a fenced block)   *)
(*     fence_close  three grave accents (closes a fenced block)           *)
(* and, in the text to_prompt_context renders:                             *)
(*     title        # Specification: <word>                                *)
(*     tier         Tier: <word>                                           *)
(*     h2           ## <word>                                              *)
(***************************************************************************)
EXTENDS Integers, Sequences, FiniteSets, TLC

VARIABLES markdown, parse_out, validate_out, before

\* a SpecDocument in the hands of a caller, and what to_prompt_context gave
VARIABLES spec_document, context

\* the DispatchRequest a DispatchHandler prepared, the SpecPhaseRunner it
\* holds, the completions of phase 1 the callers reported, the last call made
\* on handler or runner with what it returned
VARIABLES request, runner, reports, last_call

\* a call of TwoPhaseSpecDispatch (where it stands, the CLI invocations it
\* made, the results it built) and the project directory it works in
VARIABLES dispatch, project

parser_vars == <<markdown, parse_out, validate_out, before>>

dispatch_vars == <<dispatch, project>>

runner_vars == <<request, runner, reports, last_call>>

phase_vars == <<spec_document, context, runner_vars, dispatch_vars>>

\* a call of mask_output, a StackDetector at work on a project, the
\* DispatchGuard of the server with its clock, a GitWorkflow run
VARIABLES masker, detector, guard, workflow

tool_vars == <<masker, detector, guard, workflow>>

vars == <<parser_vars, phase_vars, tool_vars>>

(***************************************************************************)
(* Bounds                                                                  *)
(***************************************************************************)
MaxLines == 4

MaxFenceBody == 4

(***************************************************************************)
(* Characters and words                                                    *)
(***************************************************************************)
Lowercase == <<"a","b","c","d","e","f","g","h","i","j","k","l","m",
               "n","o","p","q","r","s","t","u","v","w","x","y","z">>

Uppercase == <<"A","B","C","D","E","F","G","H","I","J","K","L","M",
               "N","O","P","Q","R","S","T","U","V","W","X","Y","Z">>

Whitespace == {" ", "\t"}

\* str.upper(), one character
UpperChar(c) ==
    IF \E i \in 1..Len(Lowercase) : Lowercase[i] = c
    THEN Uppercase[CHOOSE i \in 1..Len(Lowercase) : Lowercase[i] = c]
    ELSE c

\* str.lower(), one character
LowerChar(c) ==
    IF \E i \in 1..Len(Uppercase) : Uppercase[i] = c
    THEN Lowercase[CHOOSE i \in 1..Len(Uppercase) : Uppercase[i] = c]
    ELSE c

\* a faulty upper(): the token is looked up as written
Upper_AsWritten(s) == s

\* str.upper()
Upper(s) == [i \in 1..Len(s) |-> UpperChar(s[i])]

\* str.lower()
Lower(s) == [i \in 1..Len(s) |-> LowerChar(s[i])]

\* str.strip() on the characters of one line
Strip(s) ==
    LET keep == {i \in 1..Len(s) : s[i] \notin Whitespace}
    IN  IF keep = {} THEN <<>>
        ELSE LET lo == CHOOSE i \in keep : \A j \in keep : i <= j
                 hi == CHOOSE i \in keep : \A j \in keep : j <= i
             IN  SubSeq(s, lo, hi)

\* Optional[str] == None
None == <<"<None>">>

(***************************************************************************)
(* Lines                                                                   *)
(***************************************************************************)
Line(kind, word, arg) == [kind |-> kind, word |-> word, arg |-> arg]

W_Foo        == <<"F","o","o">>
W_FEATURE    == <<"F","E","A","T","U","R","E">>
W_HOTFIX     == <<"H","O","T","F","I","X">>
W_SYSTEM     == <<"S","Y","S","T","E","M">>
W_Hotfix     == <<"H","o","t","f","i","x">>
W_Bogus      == <<"B","o","g","u","s">>
W_Validation == <<"V","a","l","i","d","a","t","i","o","n">>
W_Notes      == <<"N","o","t","e","s">>
W_tests      == <<"t","e","s","t","s">>
W_Tests      == <<"T","e","s","t","s">>
W_typecheck  == <<"t","y","p","e","c","h","e","c","k">>
W_lint       == <<"l","i","n","t">>
W_pytest     == <<" ","p","y","t","e","s","t">>
W_ruff       == <<" ","r","u","f","f">>
W_Interface  == <<"I","n","t","e","r","f","a","c","e">>
W_MustDo     == <<"M","u","s","t"," ","D","o">>
W_MustNotDo  == <<"M","u","s","t"," ","N","o","t"," ","D","o">>
W_EdgeCases  == <<"E","d","g","e"," ","C","a","s","e","s">>
W_Pre        == <<"P","r","e","c","o","n","d","i","t","i","o","n","s">>
W_Post       == <<"P","o","s","t","c","o","n","d","i","t","i","o","n","s">>
W_Invariants == <<"I","n","v","a","r","i","a","n","t","s">>
W_TargetPath == <<"T","a","r","g","e","t"," ","P","a","t","h">>
W_default    == <<"p","y","t","e","s","t"," ","t","e","s","t","s","/"," ","-","v">>

W_noheader   == <<"n","o"," ","h","e","a","d","e","r">>
W_Description    == <<"D","e","s","c","r","i","p","t","i","o","n">>
W_TestsLabel     == <<"T","e","s","t","s",":"," ">>
W_TypecheckLabel == <<"T","y","p","e","c","h","e","c","k",":"," ">>
W_LintLabel      == <<"L","i","n","t",":"," ">>

\* the lines documents are built from
HeaderLines ==
    { Line("header", W_Foo, W_Hotfix),      \* ## Spec: Foo [Hotfix]
      Line("header", W_Foo, W_Bogus) }      \* ## Spec: Foo [Bogus]

SectionLines ==
    { Line("section", W_Validation, <<>>),  \* ### Validation
      Line("section", W_Notes, <<>>) }      \* ### Notes

KvLines ==
    { Line("kv", W_tests, W_pytest),        \* tests: pytest
      Line("kv", W_Tests, <<" ">>),         \* Tests:<space>
      Line("kv", W_lint, W_ruff) }          \* lint: ruff

OtherLines ==
    { Line("text", W_noheader, <<>>),       \* no header
      Line("blank", <<>>, <<>>) }

Lines == HeaderLines \cup SectionLines \cup KvLines \cup OtherLines

\* the lines of a Validation section that may hold a fenced block
FenceLines ==
    { Line("fence_open", <<>>, <<>>),       \* opening fence, tagged yaml
      Line("fence_close", <<>>, <<>>),      \* closing fence
      Line("kv", W_tests, W_pytest),
      Line("kv", W_lint, W_ruff),
      Line("blank", <<>>, <<>>) }

\* the sequences of at most n elements of S
RECURSIVE SeqsUpTo(_, _)
SeqsUpTo(S, n) ==
    IF n = 0 THEN { <<>> }
    ELSE LET shorter == SeqsUpTo(S, n - 1)
         IN  shorter \cup { Append(s, l) : s \in {t \in shorter : Len(t) = n - 1}, l \in S }

\* the texts of at most MaxLines lines, and the texts that are a header, a
\* Validation section header and at most MaxFenceBody lines of that section
Documents ==
    SeqsUpTo(Lines, MaxLines)
        \cup { <<Line("header", W_Foo, W_Hotfix), Line("section", W_Validation, <<>>)>> \o body :
                  body \in SeqsUpTo(FenceLines, MaxFenceBody) }

(***************************************************************************)
(* Text of a line, and the text operations of the code                     *)
(***************************************************************************)
C_HeaderOpen == <<"#","#"," ","S","p","e","c",":"," ">>
C_Hashes     == <<"#","#","#"," ">>
\* the grave accent U+0060 (the character that fences a code block)
Grave        == "<grave>"
C_yaml       == <<Grave,Grave,Grave,"y","a","m","l">>
C_ticks      == <<Grave,Grave,Grave>>
C_Title      == <<"#"," ","S","p","e","c","i","f","i","c","a","t","i","o","n",":"," ">>
C_Tier       == <<"T","i","e","r",":"," ">>
\* the rightwards arrow U+2192
Arrow        == "<arrow>"

\* the characters of a line
Text(line) ==
    CASE line.kind = "header"      -> C_HeaderOpen \o line.word \o <<" ","[">> \o line.arg \o <<"]">>
      [] line.kind = "section"     -> C_Hashes \o line.word
      [] line.kind = "kv"          -> line.word \o <<":">> \o line.arg
      [] line.kind = "bullet"      -> <<"-"," ">> \o line.word
      [] line.kind = "edge"        -> <<"-"," ">> \o line.word \o <<" ","-",">"," ">> \o line.arg
      [] line.kind = "edge_u"      -> <<"-"," ">> \o line.word \o <<" ",Arrow," ">> \o line.arg
      [] line.kind = "text"        -> line.word
      [] line.kind = "blank"       -> <<>>
      [] line.kind = "fence_open"  -> C_yaml
      [] line.kind = "fence_close" -> C_ticks
      [] line.kind = "title"       -> C_Title \o line.word
      [] line.kind = "tier"        -> C_Tier \o line.word
      [] line.kind = "h2"          -> <<"#","#"," ">> \o line.word

\* ch in s
Contains(s, ch) == \E i \in 1..Len(s) : s[i] = ch

\* s.partition(sep): the parts before and after the first sep
Partition(s, sep) ==
    IF ~Contains(s, sep) THEN [head |-> s, tail |-> <<>>]
    ELSE LET p == CHOOSE i \in 1..Len(s) : s[i] = sep /\ \A j \in 1..(i - 1) : s[j] # sep
         IN  [head |-> SubSeq(s, 1, p - 1), tail |-> SubSeq(s, p + 1, Len(s))]

\* content.strip(), on a run of lines: leading and trailing blank lines go
StripLines(ls) ==
    LET keep == {i \in 1..Len(ls) : Strip(Text(ls[i])) # <<>>}
    IN  IF keep = {} THEN <<>>
        ELSE LET lo == CHOOSE i \in keep : \A j \in keep : i <= j
                 hi == CHOOSE i \in keep : \A j \in keep : j <= i
             IN  SubSeq(ls, lo, hi)

Min(S) == CHOOSE x \in S : \A y \in S : x <= y

Max(S) == CHOOSE x \in S : \A y \in S : y <= x

(***************************************************************************)
(* contracts.py                                                            *)
(***************************************************************************)
\* the member names of SpecTier, in declaration order
SpecTier == <<W_HOTFIX, W_FEATURE, W_SYSTEM>>

SpecTierNames == {SpecTier[i] : i \in 1..Len(SpecTier)}

ValidationConfig(tests, typecheck, lint) ==
    [tests |-> tests, typecheck |-> typecheck, lint |-> lint]

\* SpecDocument | None == None
NoDoc == [none |-> TRUE]

\* no exception
NoError == [template |-> "", value |-> <<>>, tiers |-> <<>>]

\* SpecTier.<name>.value: the name in lower case
TierValue(name) == Lower(name)

\* the entries of a dict, one after the other.  The dicts of the model are
\* functions and keep no insertion order: the entries come in a fixed order.
RECURSIVE Items(_)
Items(dict) ==
    IF DOMAIN dict = {} THEN <<>>
    ELSE LET key == CHOOSE k \in DOMAIN dict : TRUE
         IN  <<[case |-> key, outcome |-> dict[key]]>>
                 \o Items([k \in DOMAIN dict \ {key} |-> dict[k]])

\* the lines "- <item>" of a list
Bullets(items) == [i \in 1..Len(items) |-> Line("bullet", items[i], <<>>)]

\* one section of to_prompt_context: header, bullets and an empty line when
\* the list is not empty
ListSection(header, items) ==
    IF items # <<>>
    THEN <<Line("h2", header, <<>>)>> \o Bullets(items) \o <<Line("blank", <<>>, <<>>)>>
    ELSE <<>>

\* SpecDocument.to_prompt_context: the lines it joins with "\n"
to_prompt_context(self) ==
    LET blank == Line("blank", <<>>, <<>>)
        items == Items(self.edge_cases)
    IN  <<Line("title", self.name, <<>>),
          Line("tier", Upper(TierValue(self.tier)), <<>>),
          blank,
          Line("h2", W_Description, <<>>)>>
        \o (IF self.description = <<>> THEN <<blank>> ELSE self.description)
        \o <<blank>>
        \o ListSection(W_Interface, self.interface)
        \o ListSection(W_MustDo, self.must_do)
        \o ListSection(W_MustNotDo, self.must_not_do)
        \o (IF items # <<>>
            THEN <<Line("h2", W_EdgeCases, <<>>)>>
                     \o [i \in 1..Len(items) |->
                            Line("edge_u", items[i].case, items[i].outcome)]
                     \o <<blank>>
            ELSE <<>>)
        \o ListSection(W_Pre, self.preconditions)
        \o ListSection(W_Post, self.postconditions)
        \o ListSection(W_Invariants, self.invariants)
        \o <<Line("h2", W_Validation, <<>>),
             Line("bullet", W_TestsLabel \o self.validation.tests, <<>>)>>
        \o (IF self.validation.typecheck \notin {None, <<>>}
            THEN <<Line("bullet", W_TypecheckLabel \o self.validation.typecheck, <<>>)>>
            ELSE <<>>)
        \o (IF self.validation.lint \notin {None, <<>>}
            THEN <<Line("bullet", W_LintLabel \o self.validation.lint, <<>>)>>
            ELSE <<>>)
        \o (IF self.target_path \notin {None, <<>>}
            THEN <<blank, Line("h2", W_TargetPath, <<>>), Line("text", self.target_path, <<>>)>>
            ELSE <<>>)

(***************************************************************************)
(* The messages of the errors raised and reported                          *)
(***************************************************************************)
HeaderError ==
    [template |-> "Invalid spec header. Expected format: '## Spec: FeatureName [TIER]'",
     value |-> <<>>, tiers |-> <<>>]

\* ", ".join(t.name for t in SpecTier) keeps the names in order
TierError(tier_str) ==
    [template |-> "Invalid tier '{tier_str}'. Valid tiers: {valid_tiers}",
     value |-> tier_str, tiers |-> SpecTier]

TestsError ==
    [template |-> "Validation block must specify 'tests' command",
     value |-> <<>>, tiers |-> <<>>]

(***************************************************************************)
(* parser.py: SpecParser                                                   *)
(***************************************************************************)
\* _TIER_PATTERN: the lines ##\s*Spec:\s*(\w+)\s*\[(\w+)\] matches
TIER_PATTERN(content) == {i \in 1..Len(content) : content[i].kind = "header"}

\* _SECTION_PATTERN: the lines ^###\s+(.+)$ matches
SECTION_PATTERN(content) == {i \in 1..Len(content) : content[i].kind = "section"}

\* match.group(1).strip() of a section match
SectionName(content, i) == Strip(content[i].word)

\* a faulty section end: every section runs to the end of the text
SectionContent_ToEnd(content, i) == StripLines(SubSeq(content, i + 1, Len(content)))

\* content[match.end() : next match.start() or len(content)].strip()
SectionContent(content, i) ==
    LET later == {j \in SECTION_PATTERN(content) : j > i}
        end   == IF later = {} THEN Len(content) ELSE Min(later) - 1
    IN  StripLines(SubSeq(content, i + 1, end))

\* SpecParser._parse_header
_parse_header(content) ==
    LET matches == TIER_PATTERN(content)
    IN  IF matches = {}
        THEN [ok |-> FALSE, name |-> <<>>, tier |-> <<>>, error |-> HeaderError]
        ELSE LET match    == content[Min(matches)]
                 name     == match.word
                 tier_str == Upper(match.arg)
             IN  IF tier_str \in SpecTierNames
                 THEN [ok |-> TRUE, name |-> name, tier |-> tier_str, error |-> NoError]
                 ELSE [ok |-> FALSE, name |-> <<>>, tier |-> <<>>,
                       error |-> TierError(tier_str)]

\* SpecParser._extract_description
_extract_description(content) ==
    LET matches == TIER_PATTERN(content)
    IN  IF matches = {} THEN <<>>
        ELSE LET start == Min(matches)
                 later == {j \in SECTION_PATTERN(content) : j > start}
                 end   == IF later = {} THEN Len(content) ELSE Min(later) - 1
             IN  StripLines(SubSeq(content, start + 1, end))

\* SpecParser._split_sections: a later section of the same name overwrites
_split_sections(content) ==
    LET matches == SECTION_PATTERN(content)
        names   == {SectionName(content, i) : i \in matches}
    IN  [n \in names |->
            SectionContent(content, Max({i \in matches : SectionName(content, i) = n}))]

\* sections.get(name, "")
Get(sections, name) == IF name \in DOMAIN sections THEN sections[name] ELSE <<>>

\* the fenced-block search of _parse_validation and _check_validation_block
\* (an opening fence tagged yaml or yml, \s*\n, at least one character, lazily
\* up to the nearest three grave accents, with re.DOTALL): the lines of
\* group(1) when the pattern matches, else the whole content.  The match
\* starts at the first opening fence; the greedy \s*\n skips as many of the
\* blank lines after it as leaves a closing run of grave accents on a later
\* line than the one the group starts on.
YamlContent(content) ==
    LET opens == {i \in 1..Len(content) : content[i].kind = "fence_open"}
    IN  IF opens = {} THEN content
        ELSE LET open   == Min(opens)
                 ticks  == {k \in 1..Len(content) :
                               content[k].kind \in {"fence_open", "fence_close"}}
                 starts == {s \in (open + 1)..Len(content) :
                               /\ \A j \in (open + 1)..(s - 1) :
                                      Strip(Text(content[j])) = <<>>
                               /\ \E c \in ticks : c > s}
             IN  IF starts = {} THEN content
                 ELSE LET start == Max(starts)
                      IN  SubSeq(content, start, Min({c \in ticks : c > start}) - 1)

ConfigKeys == {W_tests, W_typecheck, W_lint}

\* the loop of _parse_validation over yaml_content.split("\n")
RECURSIVE ReadConfig(_, _)
ReadConfig(lines, config) ==
    IF lines = <<>> THEN config
    ELSE LET line == Strip(Text(Head(lines)))
         IN  IF ~Contains(line, ":") THEN ReadConfig(Tail(lines), config)
             ELSE LET parts == Partition(line, ":")
                      key   == Lower(Strip(parts.head))
                      value == Strip(parts.tail)
                  IN  IF key \in ConfigKeys
                      THEN ReadConfig(Tail(lines),
                               [config EXCEPT ![key] = IF value # <<>> THEN value ELSE None])
                      ELSE ReadConfig(Tail(lines), config)

\* a faulty _parse_validation: no default, a tests command is always required
_parse_validation_NoDefault(content) ==
    LET config == ReadConfig(YamlContent(content), [k \in ConfigKeys |-> None])
        tests  == config[W_tests]
    IN  IF tests = None \/ tests = <<>>
        THEN [ok |-> FALSE, config |-> ValidationConfig(None, None, None),
              error |-> TestsError]
        ELSE [ok |-> TRUE,
              config |-> ValidationConfig(tests, config[W_typecheck], config[W_lint]),
              error |-> NoError]

\* a faulty _parse_validation: a block without a tests command is accepted
_parse_validation_NoTestsCheck(content) ==
    IF content = <<>>
    THEN [ok |-> TRUE, config |-> ValidationConfig(W_default, None, None), error |-> NoError]
    ELSE LET config == ReadConfig(YamlContent(content), [k \in ConfigKeys |-> None])
         IN  [ok |-> TRUE,
              config |-> ValidationConfig(config[W_tests], config[W_typecheck], config[W_lint]),
              error |-> NoError]

\* SpecParser._parse_validation
_parse_validation(content) ==
    IF content = <<>>
    THEN [ok |-> TRUE, config |-> ValidationConfig(W_default, None, None), error |-> NoError]
    ELSE LET config == ReadConfig(YamlContent(content), [k \in ConfigKeys |-> None])
             tests  == config[W_tests]
         IN  IF tests = None \/ tests = <<>>
             THEN [ok |-> FALSE, config |-> ValidationConfig(None, None, None),
                   error |-> TestsError]
             ELSE [ok |-> TRUE,
                   config |-> ValidationConfig(tests, config[W_typecheck], config[W_lint]),
                   error |-> NoError]

\* every character of s from i to j is white space
IsSpace(s, i, j) == \A k \in i..j : s[k] \in Whitespace

\* _BULLET_PATTERN.match(line), ^-\s+(.+)$: the greedy \s+ leaves the group at
\* least one character
BULLET_PATTERN(line) ==
    IF Len(line) >= 3 /\ line[1] = "-" /\ line[2] \in Whitespace
    THEN LET r == Max({k \in 3..Len(line) : IsSpace(line, 2, k - 1)})
         IN  [ok |-> TRUE, group |-> SubSeq(line, r, Len(line))]
    ELSE [ok |-> FALSE, group |-> <<>>]

\* SpecParser._extract_section
RECURSIVE _extract_section(_)
_extract_section(content) ==
    IF content = <<>> THEN <<>>
    ELSE LET match == BULLET_PATTERN(Strip(Text(Head(content))))
             rest  == _extract_section(Tail(content))
         IN  IF match.ok THEN <<Strip(match.group)>> \o rest ELSE rest

\* a faulty alternation: only the ASCII arrow is an arrow
ArrowLen_AsciiOnly(s, p) ==
    IF p + 1 <= Len(s) /\ s[p] = "-" /\ s[p + 1] = ">" THEN 2 ELSE 0

\* the alternation (?:U+2192|->) of _EDGE_CASE_PATTERN at position p of s:
\* the number of characters it matches, 0 when it does not match
ArrowLen(s, p) ==
    IF p <= Len(s) /\ s[p] = Arrow THEN 1
    ELSE IF p + 1 <= Len(s) /\ s[p] = "-" /\ s[p + 1] = ">" THEN 2
    ELSE 0

\* (?:U+2192|->)+ from position p: the positions a run of arrows can end at
RECURSIVE ArrowRunEnds(_, _)
ArrowRunEnds(s, p) ==
    LET n == ArrowLen(s, p)
    IN  IF n = 0 THEN {} ELSE {p + n - 1} \cup ArrowRunEnds(s, p + n)

\* _EDGE_CASE_PATTERN.match(s), ^-\s*(.+?)\s*(?:U+2192|->)+\s*(.+)$.  Group 1 is
\* s[g..e], the arrows end at a.  The engine prefers the longest first \s*,
\* then the shortest group 1, then the longest run of arrows, then the longest
\* last \s* that leaves group 2 a character.
EDGE_CASE_PATTERN(s) ==
    LET n        == Len(s)
        Ends(e)  == UNION {ArrowRunEnds(s, q) :
                              q \in {k \in (e + 1)..n : IsSpace(s, e + 1, k - 1)}}
                        \cap 1..(n - 1)
        Stops(g) == {e \in g..n : Ends(e) # {}}
        starts   == {g \in 2..n : IsSpace(s, 2, g - 1) /\ Stops(g) # {}}
    IN  IF n = 0 \/ s[1] # "-" \/ starts = {}
        THEN [ok |-> FALSE, case |-> <<>>, outcome |-> <<>>]
        ELSE LET g == Max(starts)
                 e == Min(Stops(g))
                 a == Max(Ends(e))
                 r == Max({k \in (a + 1)..n : IsSpace(s, a + 1, k - 1)})
             IN  [ok |-> TRUE, case |-> SubSeq(s, g, e), outcome |-> SubSeq(s, r, n)]

\* the match of one line in the loop of _extract_edge_cases
EdgeCaseMatch(text) ==
    LET line == Strip(text)
    IN  IF line = <<>> \/ Head(line) # "-"
        THEN [ok |-> FALSE, case |-> <<>>, outcome |-> <<>>]
        ELSE EDGE_CASE_PATTERN(<<"-", " ">> \o Strip(Tail(line)))

\* SpecParser._extract_edge_cases: a later bullet of the same case overwrites
_extract_edge_cases(content) ==
    LET edges    == {i \in 1..Len(content) : EdgeCaseMatch(Text(content[i])).ok}
        case(i)  == Strip(EdgeCaseMatch(Text(content[i])).case)
        cases    == {case(i) : i \in edges}
    IN  [c \in cases |->
            Strip(EdgeCaseMatch(Text(content[Max({i \in edges : case(i) = c})])).outcome)]

\* SpecParser._extract_target_path
_extract_target_path(content) ==
    LET paths == {i \in 1..Len(content) :
                     /\ Strip(Text(content[i])) # <<>>
                     /\ Head(Strip(Text(content[i]))) # "#"}
    IN  IF paths = {} THEN None ELSE Strip(Text(content[Min(paths)]))

\* what a call gave: a value returned, or an exception raised
Returned(doc) == [status |-> "returned", doc |-> doc, error |-> NoError]

Raised(error) == [status |-> "raised", doc |-> NoDoc, error |-> error]

\* the SpecDocument that parse constructs
Document(header, description, sections, validation) ==
    [name           |-> header.name,
     description    |-> description,
     tier           |-> header.tier,
     interface      |-> _extract_section(Get(sections, W_Interface)),
     must_do        |-> _extract_section(Get(sections, W_MustDo)),
     must_not_do    |-> _extract_section(Get(sections, W_MustNotDo)),
     edge_cases     |-> _extract_edge_cases(Get(sections, W_EdgeCases)),
     preconditions  |-> _extract_section(Get(sections, W_Pre)),
     postconditions |-> _extract_section(Get(sections, W_Post)),
     invariants     |-> _extract_section(Get(sections, W_Invariants)),
     validation     |-> validation.config,
     target_path    |-> _extract_target_path(Get(sections, W_TargetPath))]

\* a faulty parse: the Validation section is read before the header
parse_ValidationFirst(content) ==
    LET sections   == _split_sections(content)
        validation == _parse_validation(Get(sections, W_Validation))
        header     == _parse_header(content)
    IN  IF ~validation.ok THEN Raised(validation.error)
        ELSE IF ~header.ok THEN Raised(header.error)
        ELSE Returned(Document(header, _extract_description(content), sections, validation))

\* SpecParser.parse
parse(content) ==
    LET header == _parse_header(content)
    IN  IF ~header.ok THEN Raised(header.error)
        ELSE LET description == _extract_description(content)
                 sections    == _split_sections(content)
                 validation  == _parse_validation(Get(sections, W_Validation))
             IN  IF ~validation.ok THEN Raised(validation.error)
                 ELSE Returned(Document(header, description, sections, validation))

(***************************************************************************)
(* validator.py                                                            *)
(***************************************************************************)
\* the loop of _check_validation_block over yaml_content.split("\n")
HasTests(lines) ==
    \E i \in 1..Len(lines) :
        LET line == Strip(Text(lines[i]))
        IN  /\ Contains(line, ":")
            /\ Lower(Strip(Partition(line, ":").head)) = W_tests
            /\ Strip(Partition(line, ":").tail) # <<>>

\* _check_validation_block; NoError stands for the None it returns.  With no
\* section named Validation both paths (the literal found in the text or not)
\* return None.
_check_validation_block(content) ==
    LET matches == SECTION_PATTERN(content)
        found   == {i \in matches : SectionName(content, i) = W_Validation}
    IN  IF found = {} THEN NoError
        ELSE LET validation_content == SectionContent(content, Min(found))
             IN  IF HasTests(YamlContent(validation_content)) THEN NoError ELSE TestsError

\* a faulty header check: a missing header is not reported
CheckHeader_Silent(content) ==
    LET matches == TIER_PATTERN(content)
    IN  IF matches = {} THEN <<>>
        ELSE LET tier_str == Upper(content[Min(matches)].arg)
             IN  IF tier_str \in SpecTierNames THEN <<>> ELSE <<TierError(tier_str)>>

\* the header check of validate_spec: the errors it appends
CheckHeader(content) ==
    LET matches == TIER_PATTERN(content)
    IN  IF matches = {} THEN <<HeaderError>>
        ELSE LET tier_str == Upper(content[Min(matches)].arg)
             IN  IF tier_str \in SpecTierNames THEN <<>> ELSE <<TierError(tier_str)>>

SpecValidationResult(is_valid, spec, errors) ==
    [status |-> "returned", is_valid |-> is_valid, spec |-> spec, errors |-> errors,
     error |-> NoError]

\* an exception leaves validate_spec: there is no result
Escaped(error) ==
    [status |-> "raised", is_valid |-> FALSE, spec |-> NoDoc, errors |-> <<>>,
     error |-> error]

\* a faulty validate_spec: the accepted document carries the default
\* validation instead of the parsed one
validate_spec_DefaultValidation(content) ==
    LET validation_error == _check_validation_block(content)
        errors == CheckHeader(content)
                     \o (IF validation_error # NoError THEN <<validation_error>> ELSE <<>>)
    IN  IF errors # <<>> THEN SpecValidationResult(FALSE, NoDoc, errors)
        ELSE LET parsed == parse(content)
             IN  IF parsed.status = "raised" THEN Escaped(parsed.error)
                 ELSE SpecValidationResult(TRUE,
                          [parsed.doc EXCEPT !.validation =
                              ValidationConfig(W_default, None, None)], <<>>)

\* a faulty validate_spec: a rejected text keeps the document the parser built
validate_spec_KeepsSpec(content) ==
    LET validation_error == _check_validation_block(content)
        errors == CheckHeader(content)
                     \o (IF validation_error # NoError THEN <<validation_error>> ELSE <<>>)
        parsed == parse(content)
    IN  IF errors # <<>> THEN SpecValidationResult(FALSE, parsed.doc, errors)
        ELSE IF parsed.status = "raised" THEN Escaped(parsed.error)
        ELSE SpecValidationResult(TRUE, parsed.doc, <<>>)

\* validate_spec
validate_spec(content) ==
    LET validation_error == _check_validation_block(content)
        errors == CheckHeader(content)
                     \o (IF validation_error # NoError THEN <<validation_error>> ELSE <<>>)
    IN  IF errors # <<>> THEN SpecValidationResult(FALSE, NoDoc, errors)
        ELSE LET parsed == parse(content)
             IN  IF parsed.status = "raised" THEN Escaped(parsed.error)
                 ELSE SpecValidationResult(TRUE, parsed.doc, <<>>)

(***************************************************************************)
(* prompts.py: SpecPromptBuilder.  A prompt is the record of the parts of  *)
(* its text that vary.                                                     *)
(***************************************************************************)
C_TestsDir == <<"t","e","s","t","s","/","t","e","s","t","_">>
C_SrcDir   == <<"s","r","c","/">>
C_py       == <<".","p","y">>

\* str.replace for one character
Replace(s, old, new) == [i \in 1..Len(s) |-> IF s[i] = old THEN new ELSE s[i]]

\* name_slug
NameSlug(spec) == Replace(Replace(Lower(spec.name), " ", "_"), "-", "_")

\* SpecPromptBuilder._infer_test_path
_infer_test_path(spec) == C_TestsDir \o NameSlug(spec) \o C_py

\* SpecPromptBuilder._infer_impl_path
_infer_impl_path(spec) ==
    IF spec.target_path \notin {None, <<>>} THEN spec.target_path
    ELSE C_SrcDir \o NameSlug(spec) \o C_py

\* SpecPromptBuilder.build_phase1_prompt
build_phase1_prompt(spec) ==
    [heading       |-> "# Phase 1: Test Generation",
     specification |-> to_prompt_context(spec),
     test_path     |-> _infer_test_path(spec),
     impl_path     |-> None,
     test_command  |-> None]

\* SpecPromptBuilder.build_phase2_prompt
build_phase2_prompt(spec, test_path) ==
    [heading       |-> "# Phase 2: Implementation",
     specification |-> to_prompt_context(spec),
     test_path     |-> test_path,
     impl_path     |-> _infer_impl_path(spec),
     test_command  |-> spec.validation.tests]

(***************************************************************************)
(* prompts.py: the text of the single combined prompt.  A prompt is the    *)
(* sequence of its lines, each a string; "\n".join is left out.            *)
(***************************************************************************)
MAX_ITERATIONS == 5

CheckMark == "<check>"

CrossMark == "<cross>"

\* the characters of s as one string
RECURSIVE Str(_)
Str(s) == IF s = <<>> THEN "" ELSE Head(s) \o Str(Tail(s))

\* the lines of a rendered text, as strings
RECURSIVE StrLines(_)
StrLines(ls) == IF ls = <<>> THEN <<>> ELSE <<Str(Text(Head(ls)))>> \o StrLines(Tail(ls))

\* sub in s, for strings
StrContains(s, sub) ==
    \E i \in 1..(Len(s) - Len(sub) + 1) : SubSeq(s, i, i + Len(sub) - 1) = sub

\* a faulty _get_tier_guidance: the HOTFIX block whatever the tier
_get_tier_guidance_AlwaysHotfix(tier) ==
    <<"**Tier: HOTFIX** - Minimal scope, fast iteration.",
      "- Focus on the specific bug/issue only",
      "- 1-3 targeted tests maximum",
      "- Inline implementation preferred",
      "- Skip exhaustive edge case testing">>

\* SpecPromptBuilder._get_tier_guidance: guidance_map[tier]
_get_tier_guidance(tier) ==
    CASE tier = W_HOTFIX ->
           <<"**Tier: HOTFIX** - Minimal scope, fast iteration.",
             "- Focus on the specific bug/issue only",
             "- 1-3 targeted tests maximum",
             "- Inline implementation preferred",
             "- Skip exhaustive edge case testing">>
      [] tier = W_FEATURE ->
           <<"**Tier: FEATURE** - Standard feature implementation.",
             "- Full behavior test coverage",
             "- All edge cases must be tested",
             "- Single module implementation",
             "- Contract tests for public interfaces">>
      [] tier = W_SYSTEM ->
           <<"**Tier: SYSTEM** - Comprehensive system component.",
             "- Exhaustive test coverage required",
             "- Integration tests if multiple modules involved",
             "- May span multiple files",
             "- Full contract testing including invariants",
             "- Consider performance implications">>

\* SpecPromptBuilder._build_test_expansion_section
_build_test_expansion_section(spec) ==
    <<"## PHASE 1: EXPAND SPEC INTO TESTS",
       "">>
        \o _get_tier_guidance(spec.tier)
        \o <<"",
           "Create a pytest test suite that captures the specification.",
           "">>
        \o <<"Test file location: " \o Grave \o Str(_infer_test_path(spec)) \o Grave>>
        \o <<"",
           "### Test Generation Rules",
           "",
           "1. **Behavior Tests**: Create one test per 'Must Do' requirement",
           "2. **Edge Case Tests**: Create one test per edge case",
           "3. **Contract Tests**: Generate tests for:",
           "   - Precondition violations (should raise appropriate errors)",
           "   - Postcondition verification (outputs match expected)",
           "   - Invariant preservation (state remains valid)",
           "4. **Constraint Tests**: Verify 'Must Not Do' constraints are not violated",
           "",
           "### Test Code Requirements",
           "",
           "- Use pytest fixtures for shared setup",
           "- Include full type hints",
           "- Use descriptive test names: " \o Grave \o "test_{behavior}_when_{condition}" \o Grave,
           "- Keep tests focused and independent",
           "- Use " \o Grave \o "pytest.raises" \o Grave \o " for expected exceptions",
           "- Use " \o Grave \o "pytest.mark.parametrize" \o Grave \o " for variations where appropriate",
           "",
           "Write all tests BEFORE implementing. Tests should initially fail.">>

\* SpecPromptBuilder._build_implementation_section
_build_implementation_section(spec) ==
    <<"## PHASE 2: IMPLEMENT",
       "">>
        \o <<"Implementation location: " \o Grave \o Str(_infer_impl_path(spec)) \o Grave>>
        \o <<"",
           "### Implementation Rules",
           "",
           "1. Follow interface signatures EXACTLY as specified",
           "2. Implement minimal code to pass all tests",
           "3. Respect all 'Must Not Do' constraints",
           "4. Handle all edge cases as specified",
           "5. Ensure preconditions are checked",
           "6. Ensure postconditions are satisfied",
           "7. Preserve all invariants",
           "",
           "### Code Quality",
           "",
           "- Use full type hints matching the interface",
           "- Follow single responsibility principle",
           "- Keep functions focused and small",
           "- No dead code or unused imports">>

\* SpecPromptBuilder._build_validation_section
_build_validation_section(spec) ==
    LET validation == spec.validation
        typecheck  == validation.typecheck \notin {None, <<>>}
        lint       == validation.lint \notin {None, <<>>}
    IN  <<"## PHASE 3: VALIDATE AND ITERATE",
           "",
           "Run validation commands and fix issues until all pass.",
           "">>
        \o <<"Maximum iterations: " \o ToString(MAX_ITERATIONS)>>
        \o <<"",
           "### Validation Steps",
           "">>
        \o <<"1. **Run Tests**: " \o Grave \o Str(validation.tests) \o Grave>>
        \o <<"   - If tests fail: analyze failures, fix implementation, retry",
           "   - Do NOT modify tests unless spec is ambiguous">>
        \o (IF typecheck
            THEN <<"2. **Type Check**: " \o Grave \o Str(validation.typecheck) \o Grave,
                   "   - Fix any type errors before proceeding">>
            ELSE <<>>)
        \o (IF lint
            THEN <<(IF typecheck THEN "3" ELSE "2") \o ". **Lint**: "
                       \o Grave \o Str(validation.lint) \o Grave,
                   "   - Fix lint errors">>
            ELSE <<>>)
        \o <<"",
           "### Iteration Loop",
           "",
           Grave \o Grave \o Grave,
           "for iteration in 1..5:",
           "    run tests",
           "    if all pass:",
           "        run typecheck (if specified)",
           "        run lint (if specified)",
           "        if all pass: SUCCESS - report completion",
           "    else:",
           "        analyze failures",
           "        fix implementation (not tests)",
           "        continue",
           Grave \o Grave \o Grave,
           "",
           "### Output Compression",
           "",
           "After each validation command, DO NOT keep full raw output in your context.",
           "Instead, immediately summarize to:",
           "",
           Grave \o Grave \o Grave,
           "pytest: " \o CheckMark \o " 15 passed | " \o CrossMark \o " 3 failed, 12 passed",
           "mypy: " \o CheckMark \o " Success | " \o CrossMark \o " 5 errors (file:line:msg)",
           "lint: " \o CheckMark \o " clean | " \o CrossMark \o " 3 errors",
           Grave \o Grave \o Grave,
           "",
           "For failures, note ONLY:",
           "- File path and line number",
           "- Error message (one line)",
           "- Skip stack traces, skip passing test details",
           "",
           "This prevents context bloat during iteration.",
           "",
           "On SUCCESS, report:",
           "- All tests passing",
           "- Files created/modified",
           "- Any notes on implementation decisions">>

\* SpecPromptBuilder._build_failure_protocol
_build_failure_protocol ==
    <<"## FAILURE PROTOCOL",
       "">>
        \o <<"If after " \o ToString(MAX_ITERATIONS) \o " iterations tests still fail, report:">>
        \o <<"",
           Grave \o Grave \o Grave,
           "## SPEC IMPLEMENTATION FAILED",
           "",
           "### Passing Tests",
           "- [list passing test names]",
           "",
           "### Failing Tests",
           "- test_name: [error message summary]",
           "",
           "### Proposed Spec Amendment",
           "[If the spec itself seems problematic, suggest specific changes]",
           "",
           "### Raw Output",
           "[Last test run output, truncated if very long]",
           Grave \o Grave \o Grave,
           "",
           "Do NOT continue past 5 failed iterations. Report and stop.">>

\* SpecPromptBuilder.build_full_prompt
build_full_prompt(spec) ==
    <<"# Spec-Driven Implementation Task",
       "",
       "You are implementing a feature from a formal specification. Follow this workflow exactly.",
       "",
       "## CRITICAL: TRUST THE SPEC",
       "",
       "The specification below is COMPLETE. Do not:",
       "- Read README, ARCHITECTURE, or documentation files",
       "- Search for patterns or conventions in the codebase",
       "- Explore directory structures",
       "- Read files unrelated to your implementation",
       "",
       "Only read files that:",
       "1. You need to import from (check the target path's neighbors)",
       "2. Contain types/classes referenced in the interface",
       "",
       "The spec tells you exactly what to build and where. Trust it.",
       "",
       "## CIRCUIT BREAKER",
       "",
       "If you have made 8+ file reads without writing any code, STOP.",
       "You are exploring instead of implementing. The spec is complete.",
       "Write the implementation now with what you know.",
       "",
       "## THE SPECIFICATION",
       "">>
        \o StrLines(to_prompt_context(spec))
        \o <<"">>
        \o _build_test_expansion_section(spec)
        \o <<"">>
        \o _build_implementation_section(spec)
        \o <<"">>
        \o _build_validation_section(spec)
        \o <<"">>
        \o _build_failure_protocol

(***************************************************************************)
(* runner.py: SpecPhaseRunner.  The record holds the fields that change;   *)
(* self.spec is the document of spec_document, project_path and            *)
(* prompt_builder are fixed.                                               *)
(***************************************************************************)
\* phase_runner = None
NoRunner == [none |-> TRUE]

\* a PhaseRequest | None that is None
NoPhaseRequest == [none |-> TRUE]

\* SpecPhaseRunner.__init__
SpecPhaseRunner == [current_phase |-> "tests", test_path |-> None]

PhaseRequest(phase, prompt, spec, test_path) ==
    [phase |-> phase, prompt |-> prompt, spec |-> spec, test_path |-> test_path]

\* SpecPhaseRunner.get_phase1_request
get_phase1_request(self, spec) ==
    PhaseRequest("tests", build_phase1_prompt(spec), spec, None)

\* a faulty complete_phase1: the test path is stored, the phase is not moved on
complete_phase1_PathOnly(self, success, test_path) ==
    IF success
    THEN [self EXCEPT !.test_path = test_path]
    ELSE self

\* SpecPhaseRunner.complete_phase1: the runner after the call
complete_phase1(self, success, test_path) ==
    IF success
    THEN [self EXCEPT !.test_path = test_path, !.current_phase = "impl"]
    ELSE self

\* SpecPhaseRunner.get_phase2_request
get_phase2_request(self, spec) ==
    IF self.test_path = None THEN NoPhaseRequest
    ELSE PhaseRequest("impl", build_phase2_prompt(spec, self.test_path), spec, self.test_path)

\* SpecPhaseRunner.infer_test_path
infer_test_path(self, spec) ==
    C_TestsDir \o Replace(Replace(Lower(spec.name), " ", "_"), "-", "_") \o C_py

(***************************************************************************)
(* dispatch/handler.py: DispatchHandler                                    *)
(***************************************************************************)
SPEC_MARKER == <<"#","#"," ","S","p","e","c",":">>

\* str.startswith
StartsWith(s, prefix) ==
    Len(s) >= Len(prefix) /\ SubSeq(s, 1, Len(prefix)) = prefix

\* DispatchHandler._detect_mode: content.strip() starts with the marker
_detect_mode(content) ==
    LET stripped == StripLines(content)
    IN  IF stripped # <<>> /\ StartsWith(Strip(Text(Head(stripped))), SPEC_MARKER)
        THEN "spec" ELSE "prose"

\* prepare has not been called
NoRequest ==
    [status |-> "not_run", mode |-> "", spec_name |-> None, phase_runner |-> FALSE,
     error |-> NoError]

\* the DispatchRequest prepare returns; phase_runner tells whether it holds
\* the runner
DispatchRequest(mode, spec_name, phase_runner) ==
    [status |-> "returned", mode |-> mode, spec_name |-> spec_name,
     phase_runner |-> phase_runner, error |-> NoError]

\* the ValueError of SpecParser.parse leaves prepare
PrepareRaised(error) ==
    [status |-> "raised", mode |-> "", spec_name |-> None, phase_runner |-> FALSE,
     error |-> error]

\* a str | None that is None, as a record
NoPrompt == [none |-> TRUE]

\* f"{prompt}\n\n{system_prompt}"
WithSystemPrompt(prompt, system_prompt) ==
    [prompt |-> prompt, system_prompt |-> system_prompt]

\* no call has been made
NoCall == [op |-> "", value |-> [none |-> TRUE]]

Call(op, value) == [op |-> op, value |-> value]

(***************************************************************************)
(* twophasespecdispatch.py: TwoPhaseSpecDispatch.  The CLI is a            *)
(* subprocess: what it returns, what its output names and what it writes   *)
(* to the project directory are the environment's choice.                  *)
(***************************************************************************)
MaxDuration == 1

\* what time.time() - start_time can measure
Durations == 1..MaxDuration

\* error=None
NoCliError == [message |-> "", path |-> <<>>]

\* the errors _execute_cli returns: a non-zero exit, the timeout, a missing
\* executable
CliErrors ==
    { [message |-> "CLI returned non-zero", path |-> <<>>],
      [message |-> "CLI timeout after 600 seconds", path |-> <<>>],
      [message |-> "CLI '{self.cli}' not found", path |-> <<>>] }

\* f"No tests generated at expected path: {test_path}"
NoTestsError(test_path) ==
    [message |-> "No tests generated at expected path: {test_path}", path |-> test_path]

\* a faulty _infer_test_path: hyphens are kept
Dispatch_infer_test_path_KeepsHyphens(spec) ==
    C_TestsDir \o Replace(Lower(spec.name), " ", "_") \o C_py

\* TwoPhaseSpecDispatch._infer_test_path
Dispatch_infer_test_path(spec) ==
    C_TestsDir \o Replace(Replace(Lower(spec.name), " ", "_"), "-", "_") \o C_py

\* TwoPhaseSpecDispatch._infer_impl_path
Dispatch_infer_impl_path(spec) ==
    IF spec.target_path # None THEN spec.target_path
    ELSE C_SrcDir \o NameSlug(spec) \o C_py

\* TwoPhaseSpecDispatch.build_phase1_prompt
Dispatch_build_phase1_prompt(spec) ==
    [heading       |-> "# Phase 1: Test Generation",
     specification |-> to_prompt_context(spec),
     test_path     |-> Dispatch_infer_test_path(spec),
     impl_path     |-> None,
     test_command  |-> None]

\* TwoPhaseSpecDispatch.build_phase2_prompt
Dispatch_build_phase2_prompt(spec, test_path) ==
    [heading       |-> "# Phase 2: Implementation",
     specification |-> to_prompt_context(spec),
     test_path     |-> test_path,
     impl_path     |-> Dispatch_infer_impl_path(spec),
     test_command  |-> spec.validation.tests]

\* what _execute_cli returns: (success, duration, files_created, error)
CliReturn(success, duration, files_created, error) ==
    [success |-> success, duration |-> duration, files_created |-> files_created,
     error |-> error]

\* the returns of _execute_cli for a CLI whose output names the files of named
_execute_cli(named) ==
    { CliReturn(TRUE, d, files, NoCliError) : d \in Durations, files \in named }
        \cup { CliReturn(FALSE, d, <<>>, e) : d \in Durations, e \in CliErrors }

PhaseResult(phase, success, duration_seconds, files_created, error) ==
    [phase |-> phase, success |-> success, duration_seconds |-> duration_seconds,
     files_created |-> files_created, error |-> error]

\* PhaseResult | None that is None
NoPhaseResult == [none |-> TRUE]

SpecExecutionResult(phase1, phase2, total_duration_seconds, success) ==
    [phase1 |-> phase1, phase2 |-> phase2,
     total_duration_seconds |-> total_duration_seconds, success |-> success]

\* run_spec has not returned
NoExecution == [none |-> TRUE]

\* x in files_created
InList(x, list) == \E i \in 1..Len(list) : list[i] = x

\* run_phase1 after _execute_cli returned cli: the PhaseResult; exists is
\* full_test_path.exists() at that time
VerifyPhase1(cli, test_path, exists) ==
    IF cli.success /\ ~InList(test_path, cli.files_created) /\ ~exists
    THEN PhaseResult("tests", FALSE, cli.duration, cli.files_created, NoTestsError(test_path))
    ELSE PhaseResult("tests", cli.success, cli.duration, cli.files_created, cli.error)

\* a faulty run_spec: phase 2 is run whatever phase 1 returned
RunsPhase2_Always(phase1_result) == TRUE

\* run_spec goes on to phase 2 (the test "if not phase1_result.success")
RunsPhase2(phase1_result) == phase1_result.success

\* no call of the dispatcher has been made
DispatchIdle ==
    [pc |-> "idle", entry |-> "", test_path |-> None, warned |-> FALSE,
     cli_log |-> <<>>, running |-> {}, cli1 |-> [none |-> TRUE],
     phase1 |-> NoPhaseResult, phase2 |-> NoPhaseResult, execution |-> NoExecution]

\* the project directory: is there a file at the inferred test path, was
\* there one when the call began, did the phase-1 CLI write one
Project(test_file) == [test_file |-> test_file, existed |-> test_file, generated |-> FALSE]

\* one invocation of the CLI
Invocation(phase, prompt) == [phase |-> phase, prompt |-> prompt]

(***************************************************************************)
(* output/masker.py: mask_output.  A raw output is a sequence of lines     *)
(* (the text is the lines joined by newlines); a line is one of            *)
(*     blank       (nothing)                                               *)
(*     spaces      two spaces                                              *)
(*     text        n times the letter x                                    *)
(*     passed      <count> passed                                          *)
(*     failed      <count> failed                                          *)
(*     found       Found <count> errors                                    *)
(*     FAILED      FAILED tests/t.py::test_a - <n times the letter m>      *)
(*     pyerror     tests/t.py:12: ValueError: boom                         *)
(*     success     Success: no issues found                                *)
(*     mypy        src/m.py:12: error: <n times the letter m> [code]       *)
(*     lint        src/m.py:12:1: E501 line too long                       *)
(* A count is written with width digits and has the value n.               *)
(***************************************************************************)
_MAX_SNIPPET_LINES == 20

_MAX_TOTAL_SIZE == 2000

\* int() of a string of more digits than this raises ValueError
MaxStrDigits == 4300

RawLine(kind, n, width) == [kind |-> kind, n |-> n, width |-> width]

\* len(line)
LineLen(l) ==
    CASE l.kind = "blank"   -> 0
      [] l.kind = "spaces"  -> Len("  ")
      [] l.kind = "text"    -> l.n
      [] l.kind = "passed"  -> l.width + Len(" passed")
      [] l.kind = "failed"  -> l.width + Len(" failed")
      [] l.kind = "found"   -> Len("Found ") + l.width + Len(" errors")
      [] l.kind = "FAILED"  -> Len("FAILED tests/t.py::test_a - ") + l.n
      [] l.kind = "pyerror" -> Len("tests/t.py:12: ValueError: boom")
      [] l.kind = "success" -> Len("Success: no issues found")
      [] l.kind = "mypy"    -> Len("src/m.py:12: error: ") + l.n + Len(" [code]")
      [] l.kind = "lint"    -> Len("src/m.py:12:1: E501 line too long")

\* the line holds white space only
IsSpaceLine(l) == l.kind \in {"blank", "spaces"}

\* len("\n".join(lines))
RECURSIVE TextLen(_)
TextLen(lines) ==
    IF lines = <<>> THEN 0
    ELSE IF Len(lines) = 1 THEN LineLen(lines[1])
    ELSE LineLen(Head(lines)) + 1 + TextLen(Tail(lines))

\* text.strip(), line by line: no line of the texts starts or ends with a blank
RECURSIVE StripRaw(_)
StripRaw(lines) ==
    IF lines = <<>> THEN <<>>
    ELSE IF IsSpaceLine(Head(lines)) THEN StripRaw(Tail(lines))
    ELSE IF IsSpaceLine(lines[Len(lines)]) THEN StripRaw(SubSeq(lines, 1, Len(lines) - 1))
    ELSE lines

\* a message: the characters of text, then fill times the letter m
Message(text, fill) == [text |-> text, fill |-> fill]

MessageLen(m) == Len(m.text) + m.fill

ErrorLocation(file, line, message) == [file |-> file, line |-> line, message |-> message]

\* raw_snippet is None
NoSnippet == [none |-> TRUE]

\* a snippet: the first chars characters of the joined lines
Snippet(lines) == [lines |-> lines, chars |-> TextLen(lines)]

MaskedOutput(summary, errors, raw_snippet) ==
    [summary |-> summary, errors |-> errors, raw_snippet |-> raw_snippet]

\* an exception left the function
ValueErrorRaised == [raised |-> "ValueError"]

\* len(summary): a summary is a tuple of strings, a mark is one character
RECURSIVE SummaryLen(_)
SummaryLen(summary) ==
    IF summary = <<>> THEN 0
    ELSE (IF Head(summary) \in {CheckMark, CrossMark} THEN 1 ELSE Len(Head(summary)))
         + SummaryLen(Tail(summary))

\* the parts joined by sep
RECURSIVE Join(_, _)
Join(parts, sep) ==
    IF parts = <<>> THEN <<>>
    ELSE IF Len(parts) = 1 THEN <<Head(parts)>>
    ELSE <<Head(parts), sep>> \o Join(Tail(parts), sep)

_truncate_to_last_n_lines(text, n) ==
    LET lines == StripRaw(text)
    IN  IF Len(lines) <= n THEN lines
        ELSE SubSeq(lines, Len(lines) - n + 1, Len(lines))

\* re.search: the first line of the kind, <<>> when there is none
FirstOf(raw, kind) ==
    LET at == {i \in 1..Len(raw) : raw[i].kind = kind}
    IN  IF at = {} THEN <<>> ELSE <<raw[Min(at)]>>

\* finditer: the lines of the kind, in order
RECURSIVE AllOf(_, _)
AllOf(raw, kind) ==
    IF raw = <<>> THEN <<>>
    ELSE (IF Head(raw).kind = kind THEN <<Head(raw)>> ELSE <<>>) \o AllOf(Tail(raw), kind)

\* int(match.group(1)) raises on the count of the line
IntRaises(match) == match # <<>> /\ match[1].width > MaxStrDigits

\* int(match.group(1)) if match else 0
IntOr0(match) == IF match = <<>> THEN 0 ELSE match[1].n

RECURSIVE FailedErrors(_, _)
FailedErrors(lines, line_num) ==
    IF lines = <<>> THEN <<>>
    ELSE <<ErrorLocation("tests/t.py", line_num, Message("", Head(lines).n))>>
         \o FailedErrors(Tail(lines), line_num)

RECURSIVE PyErrors(_)
PyErrors(lines) ==
    IF lines = <<>> THEN <<>>
    ELSE <<ErrorLocation("tests/t.py", 12, Message("ValueError: boom", 0))>>
         \o PyErrors(Tail(lines))

_parse_pytest(raw) ==
    LET passed_match == FirstOf(raw, "passed")
        failed_match == FirstOf(raw, "failed")
        error_match  == FirstOf(raw, "found")
        passed       == IntOr0(passed_match)
        failed       == IntOr0(failed_match)
        errors_count == IntOr0(error_match)
        total_failures == failed + errors_count
        line_num     == IF FirstOf(raw, "pyerror") = <<>> THEN 0 ELSE 12
        failures     == FailedErrors(AllOf(raw, "FAILED"), line_num)
        errors       == IF total_failures > 0
                        THEN IF failures = <<>> /\ error_match # <<>>
                             THEN PyErrors(AllOf(raw, "pyerror"))
                             ELSE failures
                        ELSE <<>>
        parts        == (IF failed # 0 THEN <<ToString(failed) \o " failed">> ELSE <<>>)
                        \o (IF errors_count # 0 THEN <<ToString(errors_count) \o " error">> ELSE <<>>)
                        \o (IF passed # 0 THEN <<ToString(passed) \o " passed">> ELSE <<>>)
    IN  IF IntRaises(passed_match) \/ IntRaises(failed_match) \/ IntRaises(error_match)
        THEN ValueErrorRaised
        ELSE IF total_failures > 0
        THEN MaskedOutput(<<CrossMark, " ">> \o Join(parts, ", "), errors,
                          Snippet(_truncate_to_last_n_lines(raw, _MAX_SNIPPET_LINES)))
        ELSE IF passed > 0
        THEN MaskedOutput(<<CheckMark, " ", ToString(passed), " passed">>, <<>>, NoSnippet)
        ELSE MaskedOutput(<<"? Unknown pytest output">>, <<>>,
                          Snippet(_truncate_to_last_n_lines(raw, _MAX_SNIPPET_LINES)))

RECURSIVE MypyErrors(_)
MypyErrors(lines) ==
    IF lines = <<>> THEN <<>>
    ELSE <<ErrorLocation("src/m.py", 12, Message("", Head(lines).n))>>
         \o MypyErrors(Tail(lines))

_parse_mypy(raw) ==
    LET error_count_match == FirstOf(raw, "found")
        errors == MypyErrors(AllOf(raw, "mypy"))
        snippet == Snippet(_truncate_to_last_n_lines(raw, _MAX_SNIPPET_LINES))
    IN  IF FirstOf(raw, "success") # <<>>
        THEN MaskedOutput(<<CheckMark, " mypy: Success">>, <<>>, NoSnippet)
        ELSE IF error_count_match # <<>>
        THEN IF IntRaises(error_count_match) THEN ValueErrorRaised
             ELSE MaskedOutput(<<CrossMark, " mypy: ", ToString(error_count_match[1].n), " errors">>,
                               errors, snippet)
        ELSE IF errors # <<>>
        THEN MaskedOutput(<<CrossMark, " mypy: ", ToString(Len(errors)), " errors">>,
                          errors, snippet)
        ELSE MaskedOutput(<<"? Unknown mypy output">>, <<>>, snippet)

RECURSIVE LintErrors(_)
LintErrors(lines) ==
    IF lines = <<>> THEN <<>>
    ELSE <<ErrorLocation("src/m.py", 12, Message("E501 line too long", 0))>>
         \o LintErrors(Tail(lines))

_parse_lint(raw) ==
    LET errors == LintErrors(AllOf(raw, "lint"))
    IN  IF errors # <<>>
        THEN MaskedOutput(<<CrossMark, " lint: ", ToString(Len(errors)), " errors">>, errors,
                          Snippet(_truncate_to_last_n_lines(raw, _MAX_SNIPPET_LINES)))
        ELSE IF StripRaw(raw) # <<>>
        THEN MaskedOutput(<<CheckMark, " lint: clean">>, <<>>, NoSnippet)
        ELSE MaskedOutput(<<"No output">>, <<>>, NoSnippet)

_parse_generic(raw) ==
    IF StripRaw(raw) = <<>>
    THEN MaskedOutput(<<"No output">>, <<>>, NoSnippet)
    ELSE MaskedOutput(<<"? Unknown output">>, <<>>,
                      Snippet(_truncate_to_last_n_lines(raw, _MAX_SNIPPET_LINES)))

\* len(e.file) + len(str(e.line)) + len(e.message), summed over the errors
RECURSIVE ErrorsSize(_)
ErrorsSize(errors) ==
    IF errors = <<>> THEN 0
    ELSE Len(Head(errors).file) + Len(ToString(Head(errors).line))
         + MessageLen(Head(errors).message) + ErrorsSize(Tail(errors))

\* if output.raw_snippet: neither None nor empty
HasSnippet(output) == output.raw_snippet # NoSnippet /\ output.raw_snippet.chars > 0

_ensure_size_limit(output) ==
    LET total_size == SummaryLen(output.summary) + ErrorsSize(output.errors)
                      + (IF HasSnippet(output) THEN output.raw_snippet.chars ELSE 0)
        available  == _MAX_TOTAL_SIZE - SummaryLen(output.summary) - ErrorsSize(output.errors)
    IN  IF total_size <= _MAX_TOTAL_SIZE THEN output
        ELSE IF available > 0 /\ HasSnippet(output)
        THEN MaskedOutput(output.summary, output.errors,
                          [lines |-> output.raw_snippet.lines,
                           chars |-> IF available < output.raw_snippet.chars
                                     THEN available ELSE output.raw_snippet.chars])
        ELSE MaskedOutput(output.summary,
                          SubSeq(output.errors, 1,
                                 IF Len(output.errors) < 10 THEN Len(output.errors) ELSE 10),
                          NoSnippet)

\* mask_output without its except clause
mask_output_NoExcept(raw, command_type) ==
    IF StripRaw(raw) = <<>>
    THEN MaskedOutput(<<"No output">>, <<>>, NoSnippet)
    ELSE LET result == CASE command_type = "pytest" -> _parse_pytest(raw)
                         [] command_type = "mypy"   -> _parse_mypy(raw)
                         [] command_type = "lint"   -> _parse_lint(raw)
                         [] OTHER                   -> _parse_generic(raw)
         IN  IF result = ValueErrorRaised THEN ValueErrorRaised ELSE _ensure_size_limit(result)

mask_output(raw, command_type) ==
    IF StripRaw(raw) = <<>>
    THEN MaskedOutput(<<"No output">>, <<>>, NoSnippet)
    ELSE LET result == CASE command_type = "pytest" -> _parse_pytest(raw)
                         [] command_type = "mypy"   -> _parse_mypy(raw)
                         [] command_type = "lint"   -> _parse_lint(raw)
                         [] OTHER                   -> _parse_generic(raw)
         IN  IF result = ValueErrorRaised
             THEN MaskedOutput(<<"? Parse error">>, <<>>,
                               IF StripRaw(raw) # <<>>
                               THEN Snippet(_truncate_to_last_n_lines(raw, _MAX_SNIPPET_LINES))
                               ELSE NoSnippet)
             ELSE _ensure_size_limit(result)

(***************************************************************************)
(* The state machine: a caller holds one markdown text and calls           *)
(* SpecParser().parse and validate_spec on it, in either order.            *)
(***************************************************************************)
NotParsed == [status |-> "not_run", doc |-> NoDoc, error |-> NoError]

NotValidated ==
    [status |-> "not_run", is_valid |-> FALSE, spec |-> NoDoc, errors |-> <<>>,
     error |-> NoError]

\* no DispatchHandler has prepared a request, there is no runner
RunnerIdle ==
    /\ request = NoRequest
    /\ runner = NoRunner
    /\ reports = {}
    /\ last_call = NoCall

\* to_prompt_context has not been called
NotRendered == <<Line("none", <<>>, <<>>)>>

\* the text has not been edited: there are no earlier results to compare with
NoEdit == [none |-> TRUE]

\* no dispatcher has been called, the project has no test file
DispatcherIdle ==
    /\ dispatch = DispatchIdle
    /\ project = Project(FALSE)

\* nobody masks an output, detects a stack, dispatches through the server
\* or runs a git workflow
MaskerIdle == [idle |-> TRUE]

DetectorIdle == [idle |-> TRUE]

GuardIdle == [idle |-> TRUE]

WorkflowIdle == [idle |-> TRUE]

ToolsIdle ==
    /\ masker = MaskerIdle
    /\ detector = DetectorIdle
    /\ guard = GuardIdle
    /\ workflow = WorkflowIdle

\* one of the texts of docs is at hand, nothing has been called on it
ParserHolds(docs) ==
    /\ markdown \in docs
    /\ parse_out = NotParsed
    /\ validate_out = NotValidated
    /\ before = NoEdit

\* a caller that holds one of the texts of docs and has called nothing yet
Holding(docs) ==
    /\ ParserHolds(docs)
    /\ spec_document = NoDoc
    /\ context = NotRendered
    /\ RunnerIdle
    /\ DispatcherIdle
    /\ ToolsIdle

Init == Holding(Documents)

Parse ==
    /\ parse_out = NotParsed
    /\ parse_out' = parse(markdown)
    /\ UNCHANGED <<markdown, validate_out, before, phase_vars, tool_vars>>

ValidateSpec ==
    /\ validate_out = NotValidated
    /\ validate_out' = validate_spec(markdown)
    /\ UNCHANGED <<markdown, parse_out, before, phase_vars, tool_vars>>

Next == Parse \/ ValidateSpec

Spec == Init /\ [][Next]_vars

(***************************************************************************)
(* A second specification for the tier check: one header line whose tier   *)
(* token ranges over every case variant of the three tier names and over   *)
(* some tokens that are no tier, followed by at most MaxTierBody lines.    *)
(***************************************************************************)
MaxTierBody == 1

W_HOT      == <<"H","O","T">>
W_FEATURES == <<"F","E","A","T","U","R","E","S">>
W_hotfixes == <<"h","o","t","f","i","x","e","s">>
W_INVALID  == <<"I","N","V","A","L","I","D","_","T","I","E","R">>

\* every way of writing w with each letter in upper or lower case
RECURSIVE CaseVariants(_)
CaseVariants(w) ==
    IF w = <<>> THEN { <<>> }
    ELSE { <<c>> \o r : c \in {Head(w), LowerChar(Head(w))}, r \in CaseVariants(Tail(w)) }

TierTokens ==
    UNION {CaseVariants(SpecTier[i]) : i \in 1..Len(SpecTier)}
        \cup {W_Bogus, W_HOT, W_FEATURES, W_hotfixes, W_INVALID}

TierDocuments ==
    { <<Line("header", W_Foo, t)>> \o body : t \in TierTokens, body \in SeqsUpTo(Lines \cup FenceLines, MaxTierBody) }

InitTiers == Holding(TierDocuments)

SpecTiers == InitTiers /\ [][Next]_vars

(***************************************************************************)
(* A third specification for the edge cases: a valid header, an Edge Cases *)
(* section header and at most MaxEdgeBody lines of that section: bullets   *)
(* with either arrow, with white space around case and outcome, with an    *)
(* arrow inside the outcome, a bullet without an arrow, other lines.       *)
(***************************************************************************)
MaxEdgeBody == 3

W_empty   == <<"e","m","p","t","y">>
W_raises  == <<"r","a","i","s","e","s">>
W_none    == <<"n","o","n","e">>
W_padded  == <<" ","e","m","p","t","y","\t">>
W_chained == <<"\t","n","o","n","e"," ","-",">"," ","0"," ">>

EdgeLines ==
    { Line("edge",   W_empty,  W_raises),   \* - empty -> raises
      Line("edge_u", W_empty,  W_raises),   \* - empty U+2192 raises
      Line("edge",   W_padded, W_chained),  \* -  empty<tab> -> <tab>none -> 0<space>
      Line("edge_u", W_padded, W_chained),
      Line("edge_u", W_none,   W_empty),    \* - none U+2192 empty
      Line("bullet", W_empty,  <<>>),       \* - empty
      Line("text",   W_noheader, <<>>) }

EdgeDocuments ==
    { <<Line("header", W_Foo, W_Hotfix), Line("section", W_EdgeCases, <<>>)>> \o body :
          body \in SeqsUpTo(EdgeLines, MaxEdgeBody) }

InitEdges == Holding(EdgeDocuments)

SpecEdges == InitEdges /\ [][Next]_vars

(***************************************************************************)
(* A fourth specification for the sections: texts of at most               *)
(* MaxSectionLines lines with recognised sections, and an author who adds  *)
(* a section of an unrecognised name to a text that was parsed and         *)
(* validated; the edited text is then parsed and validated again.          *)
(***************************************************************************)
MaxSectionLines == 4

W_validation == <<"v","a","l","i","d","a","t","i","o","n">>
W_step       == <<"s","t","e","p">>

SectionDocLines ==
    { Line("header", W_Foo, W_Hotfix),
      Line("section", W_Validation, <<>>),
      Line("section", W_MustDo, <<>>),
      Line("kv", W_tests, W_pytest),
      Line("kv", W_Tests, <<" ">>),
      Line("bullet", W_step, <<>>),
      Line("blank", <<>>, <<>>) }

SectionDocuments == SeqsUpTo(SectionDocLines, MaxSectionLines)

\* the names SpecParser.parse looks up in the sections
RecognisedNames ==
    { W_Interface, W_MustDo, W_MustNotDo, W_EdgeCases, W_Pre, W_Post, W_Invariants,
      W_Validation, W_TargetPath }

\* names of added sections, and what an added section may hold
AddedNames == { W_Notes, W_validation }

AddedBodies ==
    { <<>>,
      <<Line("kv", W_Tests, <<" ">>), Line("bullet", W_step, <<>>)>> }

\* where a section may be added: after the header line, and either at the end
\* of the text or right before a section header (so after the description,
\* between or after the sections)
AddPositions ==
    LET headers == {i \in 1..Len(markdown) : markdown[i].kind = "header"}
    IN  {p \in 1..(Len(markdown) + 1) :
            /\ headers # {} => p > Min(headers)
            /\ p = Len(markdown) + 1 \/ markdown[p].kind = "section"}

InitSections == Holding(SectionDocuments)

\* the author adds the section <name> with the lines <body> before line p
AddSection ==
    /\ before = NoEdit
    /\ parse_out # NotParsed /\ validate_out # NotValidated
    /\ \E p \in AddPositions, name \in AddedNames \ RecognisedNames, body \in AddedBodies :
           markdown' = SubSeq(markdown, 1, p - 1)
                          \o <<Line("section", name, <<>>)>> \o body
                          \o SubSeq(markdown, p, Len(markdown))
    /\ before' = [parse |-> parse_out, validate |-> validate_out]
    /\ parse_out' = NotParsed
    /\ validate_out' = NotValidated
    /\ UNCHANGED <<phase_vars, tool_vars>>

NextSections == Parse \/ ValidateSpec \/ AddSection

SpecSections == InitSections /\ [][NextSections]_vars

(***************************************************************************)
(* A fifth specification for to_prompt_context: a caller holds a           *)
(* SpecDocument, every field of it empty or populated, and renders it.     *)
(***************************************************************************)
W_mypy == <<"m","y","p","y">>
W_path == <<"s","r","c","/","f","o","o",".","p","y">>

Lists == { <<>>, <<W_step>> }

SpecDocuments ==
    [name           : {W_Foo},
     description    : { <<>>, <<Line("text", W_noheader, <<>>)>> },
     tier           : SpecTierNames,
     interface      : Lists,
     must_do        : Lists,
     must_not_do    : Lists,
     edge_cases     : { [c \in {} |-> <<>>], [c \in {W_empty} |-> W_raises] },
     preconditions  : Lists,
     postconditions : Lists,
     invariants     : Lists,
     validation     : {ValidationConfig(W_default, t, l) :
                          t \in {None, W_mypy}, l \in {None, Strip(W_ruff)}},
     target_path    : {None, <<>>, W_path}]

\* a caller that holds one of the documents of docs and no markdown text
HoldingSpec(docs) ==
    /\ ParserHolds({ <<>> })
    /\ spec_document \in docs
    /\ context = NotRendered
    /\ RunnerIdle
    /\ DispatcherIdle
    /\ ToolsIdle

InitContext == HoldingSpec(SpecDocuments)

\* spec.to_prompt_context()
ToPromptContext ==
    /\ spec_document # NoDoc
    /\ context = NotRendered
    /\ context' = to_prompt_context(spec_document)
    /\ UNCHANGED <<parser_vars, tool_vars, spec_document, runner_vars, dispatch_vars>>

NextContext == ToPromptContext

SpecContext == InitContext /\ [][NextContext]_vars

(***************************************************************************)
(* A sixth specification for the two-phase flow: a DispatchHandler         *)
(* prepares a request for a text, and the callers use the handler and the  *)
(* SpecPhaseRunner of the request in any order.                            *)
(***************************************************************************)
PhaseDocuments ==
    { <<Line("header", W_Foo, W_Hotfix)>>,
      <<Line("blank", <<>>, <<>>), Line("header", W_Foo, W_Hotfix),
        Line("section", W_Validation, <<>>), Line("kv", W_tests, W_pytest)>>,
      <<Line("header", W_Foo, W_Hotfix), Line("section", W_TargetPath, <<>>),
        Line("text", W_path, <<>>)>>,
      <<Line("header", W_Foo, W_Bogus)>>,
      <<Line("text", W_noheader, <<>>), Line("header", W_Foo, W_Hotfix)>>,
      <<>> }

\* the test paths callers pass: the inferred one, and the empty string
CallerTestPaths == { _infer_test_path([name |-> W_Foo]), <<>> }

SystemPrompts == { <<"S","Y","S">> }

InitPhases == Holding(PhaseDocuments)

\* DispatchHandler.prepare(content, project_path)
Prepare ==
    /\ request = NoRequest
    /\ LET mode   == _detect_mode(markdown)
           parsed == parse(markdown)
       IN  IF mode = "spec"
           THEN IF parsed.status = "raised"
                THEN /\ request' = PrepareRaised(parsed.error)
                     /\ UNCHANGED <<spec_document, runner>>
                ELSE /\ request' = DispatchRequest("spec", parsed.doc.name, TRUE)
                     /\ spec_document' = parsed.doc
                     /\ runner' = SpecPhaseRunner
           ELSE /\ request' = DispatchRequest("prose", None, FALSE)
                /\ UNCHANGED <<spec_document, runner>>
    /\ last_call' = Call("prepare", request')
    /\ UNCHANGED <<parser_vars, tool_vars, context, reports, dispatch_vars>>

\* DispatchHandler.build_prompt(request, system_prompt)
BuildPrompt ==
    /\ request.status = "returned"
    /\ \E system_prompt \in SystemPrompts :
           LET prompt ==
                   IF request.mode = "spec" /\ request.phase_runner
                   THEN get_phase1_request(runner, spec_document).prompt
                   ELSE IF request.mode = "spec"
                   THEN build_phase1_prompt(parse(markdown).doc)
                   ELSE [content |-> markdown]
           IN  last_call' = Call("build_prompt", WithSystemPrompt(prompt, system_prompt))
    /\ UNCHANGED <<parser_vars, tool_vars, spec_document, context, request, runner, reports, dispatch_vars>>

\* DispatchHandler.build_phase2_prompt(request, test_path, system_prompt)
BuildPhase2Prompt ==
    /\ request.status = "returned"
    /\ \E test_path \in CallerTestPaths, system_prompt \in SystemPrompts :
           IF request.mode # "spec" \/ ~request.phase_runner
           THEN /\ last_call' = Call("build_phase2_prompt", NoPrompt)
                /\ UNCHANGED runner
           ELSE /\ runner' = complete_phase1(runner, TRUE, test_path)
                /\ LET phase2_request == get_phase2_request(runner', spec_document)
                   IN  last_call' =
                           Call("build_phase2_prompt",
                                IF phase2_request = NoPhaseRequest THEN NoPrompt
                                ELSE WithSystemPrompt(phase2_request.prompt, system_prompt))
    /\ UNCHANGED <<parser_vars, tool_vars, spec_document, context, request, reports, dispatch_vars>>

\* DispatchHandler.get_test_path(request)
GetTestPath ==
    /\ request.status = "returned"
    /\ last_call' =
           Call("get_test_path",
                IF request.mode # "spec" \/ ~request.phase_runner THEN NoPrompt
                ELSE [path |-> infer_test_path(runner, spec_document)])
    /\ UNCHANGED <<parser_vars, tool_vars, spec_document, context, request, runner, reports, dispatch_vars>>

\* request.phase_runner.get_phase1_request()
GetPhase1Request ==
    /\ runner # NoRunner
    /\ last_call' = Call("get_phase1_request", get_phase1_request(runner, spec_document))
    /\ UNCHANGED <<parser_vars, tool_vars, spec_document, context, request, runner, reports, dispatch_vars>>

\* request.phase_runner.complete_phase1(success, test_path): the caller
\* reports how phase 1 ended
CompletePhase1 ==
    /\ runner # NoRunner
    /\ \E success \in BOOLEAN, test_path \in CallerTestPaths :
           /\ runner' = complete_phase1(runner, success, test_path)
           /\ reports' = reports \cup {[success |-> success, test_path |-> test_path]}
           /\ last_call' = Call("complete_phase1",
                                 [success |-> success, test_path |-> test_path])
    /\ UNCHANGED <<parser_vars, tool_vars, spec_document, context, request, dispatch_vars>>

\* request.phase_runner.get_phase2_request()
GetPhase2Request ==
    /\ runner # NoRunner
    /\ last_call' = Call("get_phase2_request", get_phase2_request(runner, spec_document))
    /\ UNCHANGED <<parser_vars, tool_vars, spec_document, context, request, runner, reports, dispatch_vars>>

\* request.phase_runner.infer_test_path()
InferTestPath ==
    /\ runner # NoRunner
    /\ last_call' = Call("infer_test_path", [path |-> infer_test_path(runner, spec_document)])
    /\ UNCHANGED <<parser_vars, tool_vars, spec_document, context, request, runner, reports, dispatch_vars>>

NextPhases ==
    \/ Prepare
    \/ BuildPrompt
    \/ BuildPhase2Prompt
    \/ GetTestPath
    \/ GetPhase1Request
    \/ CompletePhase1
    \/ GetPhase2Request
    \/ InferTestPath

SpecPhases == InitPhases /\ [][NextPhases]_vars

(***************************************************************************)
(* A seventh specification for TwoPhaseSpecDispatch: one call of run_spec, *)
(* run_phase1 or run_phase2 on a document, in a project directory that has *)
(* a file at the inferred test path or has none.  A call stands still      *)
(* while the CLI subprocess runs.                                          *)
(***************************************************************************)
DispatchSpecs ==
    { [name           |-> W_Foo,
       description    |-> <<Line("text", W_noheader, <<>>)>>,
       tier           |-> W_FEATURE,
       interface      |-> <<>>,
       must_do        |-> <<W_step>>,
       must_not_do    |-> <<>>,
       edge_cases     |-> [c \in {W_empty} |-> W_raises],
       preconditions  |-> <<>>,
       postconditions |-> <<>>,
       invariants     |-> <<>>,
       validation     |-> ValidationConfig(W_default, None, None),
       target_path    |-> t] : t \in {None, W_path} }

InitDispatch ==
    /\ ParserHolds({ <<>> })
    /\ spec_document \in DispatchSpecs
    /\ context = NotRendered
    /\ RunnerIdle
    /\ dispatch = DispatchIdle
    /\ project \in {Project(FALSE), Project(TRUE)}
    /\ ToolsIdle

\* run_phase1 up to the call of _execute_cli: the warning when the test file
\* exists, the prompt, the CLI started
BeginPhase1(entry) ==
    /\ dispatch.pc = "idle"
    /\ spec_document # NoDoc
    /\ dispatch' =
           [dispatch EXCEPT
               !.pc      = "phase1_cli",
               !.entry   = entry,
               !.warned  = project.test_file,
               !.cli_log = Append(@, Invocation("tests",
                                         Dispatch_build_phase1_prompt(spec_document))),
               !.running = @ \cup {"tests"}]
    /\ project' = [project EXCEPT !.existed = project.test_file]
    /\ UNCHANGED <<parser_vars, tool_vars, spec_document, context, runner_vars>>

\* a faulty run_spec: both phases are started at once
RunSpec_Parallel ==
    /\ dispatch.pc = "idle"
    /\ spec_document # NoDoc
    /\ dispatch' =
           [dispatch EXCEPT
               !.pc      = "phase1_cli",
               !.entry   = "run_spec",
               !.warned  = project.test_file,
               !.cli_log = @ \o <<Invocation("tests",
                                      Dispatch_build_phase1_prompt(spec_document)),
                                  Invocation("impl",
                                      Dispatch_build_phase2_prompt(spec_document,
                                          Dispatch_infer_test_path(spec_document)))>>,
               !.running = @ \cup {"tests", "impl"}]
    /\ UNCHANGED <<parser_vars, tool_vars, spec_document, context, runner_vars, project>>

\* TwoPhaseSpecDispatch.run_spec(spec) is called
RunSpec == BeginPhase1("run_spec")

\* TwoPhaseSpecDispatch.run_phase1(spec) is called
RunPhase1 == BeginPhase1("run_phase1")

\* a faulty run_phase2: the inferred implementation path is stored in the
\* document it was given
RunPhase2_StoresTarget ==
    /\ dispatch.pc = "idle"
    /\ spec_document # NoDoc
    /\ \E test_path \in CallerTestPaths :
           dispatch' =
               [dispatch EXCEPT
                   !.pc        = "phase2_cli",
                   !.entry     = "run_phase2",
                   !.test_path = test_path,
                   !.cli_log   = Append(@, Invocation("impl",
                                     Dispatch_build_phase2_prompt(spec_document, test_path))),
                   !.running   = @ \cup {"impl"}]
    /\ spec_document' =
           [spec_document EXCEPT !.target_path = Dispatch_infer_impl_path(spec_document)]
    /\ UNCHANGED <<parser_vars, tool_vars, context, runner_vars, project>>

\* TwoPhaseSpecDispatch.run_phase2(spec, test_path) is called
RunPhase2 ==
    /\ dispatch.pc = "idle"
    /\ spec_document # NoDoc
    /\ \E test_path \in CallerTestPaths :
           dispatch' =
               [dispatch EXCEPT
                   !.pc        = "phase2_cli",
                   !.entry     = "run_phase2",
                   !.test_path = test_path,
                   !.cli_log   = Append(@, Invocation("impl",
                                     Dispatch_build_phase2_prompt(spec_document, test_path))),
                   !.running   = @ \cup {"impl"}]
    /\ UNCHANGED <<parser_vars, tool_vars, spec_document, context, runner_vars, project>>

\* the CLI of phase 1 returns: run_phase1 verifies the test file and returns;
\* under run_spec, the result is final when phase 1 failed, else run_phase2
\* starts the CLI of phase 2
Phase1CliReturns ==
    /\ dispatch.pc = "phase1_cli"
    /\ \E wrote \in BOOLEAN,
          cli \in _execute_cli({ <<>>, <<Dispatch_infer_test_path(spec_document)>> }) :
           LET test_path     == Dispatch_infer_test_path(spec_document)
               exists        == project.test_file \/ wrote
               phase1_result == VerifyPhase1(cli, test_path, exists)
               returned      == [dispatch EXCEPT !.running = @ \ {"tests"},
                                                 !.cli1    = cli,
                                                 !.phase1  = phase1_result]
           IN  /\ project' = [project EXCEPT !.test_file = exists, !.generated = wrote]
               /\ dispatch' =
                      IF dispatch.entry = "run_phase1"
                      THEN [returned EXCEPT !.pc = "done"]
                      ELSE IF ~RunsPhase2(phase1_result)
                      THEN [returned EXCEPT
                               !.pc        = "done",
                               !.execution =
                                   SpecExecutionResult(phase1_result, NoPhaseResult,
                                       phase1_result.duration_seconds, FALSE)]
                      ELSE [returned EXCEPT
                               !.pc        = "phase2_cli",
                               !.test_path = test_path,
                               !.cli_log   = Append(@, Invocation("impl",
                                                 Dispatch_build_phase2_prompt(spec_document,
                                                                              test_path))),
                               !.running   = @ \cup {"impl"}]
    /\ UNCHANGED <<parser_vars, tool_vars, spec_document, context, runner_vars>>

\* the CLI of phase 2 returns: run_phase2 returns, and run_spec with it
Phase2CliReturns ==
    /\ dispatch.pc = "phase2_cli"
    /\ \E cli \in _execute_cli({ <<>>, <<Dispatch_infer_impl_path(spec_document)>> }) :
           LET phase2_result ==
                   PhaseResult("impl", cli.success, cli.duration, cli.files_created, cli.error)
           IN  dispatch' =
                   [dispatch EXCEPT
                       !.pc        = "done",
                       !.running   = @ \ {"impl"},
                       !.phase2    = phase2_result,
                       !.execution =
                           IF dispatch.entry = "run_spec"
                           THEN SpecExecutionResult(dispatch.phase1, phase2_result,
                                    dispatch.phase1.duration_seconds
                                        + phase2_result.duration_seconds,
                                    phase2_result.success)
                           ELSE @]
    /\ UNCHANGED <<parser_vars, tool_vars, spec_document, context, runner_vars, project>>

NextDispatch ==
    \/ RunSpec
    \/ RunPhase1
    \/ RunPhase2
    \/ Phase1CliReturns
    \/ Phase2CliReturns

SpecDispatch == InitDispatch /\ [][NextDispatch]_vars

(***************************************************************************)
(* An eighth specification with every operation that receives a            *)
(* SpecDocument: a DispatchHandler prepares a request from a text, which   *)
(* constructs the document; the handler, the runner, a TwoPhaseSpecDispatch *)
(* and to_prompt_context are then called on it in any order.               *)
(***************************************************************************)
OperationDocuments ==
    { <<Line("header", W_Foo, W_Hotfix), Line("section", W_MustDo, <<>>),
        Line("bullet", W_step, <<>>)>> }

InitOperations == Holding(OperationDocuments)

NextOperations ==
    \/ Prepare
    \/ BuildPrompt
    \/ BuildPhase2Prompt
    \/ GetTestPath
    \/ GetPhase1Request
    \/ CompletePhase1
    \/ GetPhase2Request
    \/ InferTestPath
    \/ ToPromptContext
    \/ RunSpec
    \/ RunPhase1
    \/ RunPhase2
    \/ Phase1CliReturns
    \/ Phase2CliReturns

SpecOperations == InitOperations /\ [][NextOperations]_vars

(***************************************************************************)
(* A ninth specification for the inference of the test path: a document    *)
(* of any name, built directly, with its runner, the request a handler     *)
(* made for it and a dispatcher; the operations that infer the test path   *)
(* are called on it.                                                       *)
(***************************************************************************)
MaxNameLen == 3

NameChars == {"A", "b", " ", "-", "_"}

NamedSpecs ==
    { [name           |-> n,
       description    |-> <<>>,
       tier           |-> W_FEATURE,
       interface      |-> <<>>,
       must_do        |-> <<>>,
       must_not_do    |-> <<>>,
       edge_cases     |-> <<>>,
       preconditions  |-> <<>>,
       postconditions |-> <<>>,
       invariants     |-> <<>>,
       validation     |-> ValidationConfig(W_default, None, None),
       target_path    |-> None] : n \in SeqsUpTo(NameChars, MaxNameLen) }

InitNames ==
    /\ ParserHolds({ <<>> })
    /\ spec_document \in NamedSpecs
    /\ context = NotRendered
    /\ request = DispatchRequest("spec", spec_document.name, TRUE)
    /\ runner = SpecPhaseRunner
    /\ reports = {}
    /\ last_call = NoCall
    /\ DispatcherIdle
    /\ ToolsIdle

NextNames ==
    \/ InferTestPath
    \/ GetTestPath
    \/ GetPhase1Request
    \/ RunPhase1

SpecNames == InitNames /\ [][NextNames]_vars

(***************************************************************************)
(* A tenth specification for the single combined prompt: a caller holds a  *)
(* document, of any tier, whose own text may quote a phrase of the         *)
(* guidance, and calls SpecPromptBuilder().build_full_prompt on it.        *)
(***************************************************************************)
HotfixPhrase == "1-3 targeted tests"

SystemPhrase == "Exhaustive test coverage"

\* the characters of a string
Chars(str) == [i \in 1..Len(str) |-> SubSeq(str, i, i)]

PromptSpecs ==
    [name           : {W_Foo},
     description    : { <<>>, <<Line("text", W_noheader, <<>>)>>,
                        <<Line("text", Chars(HotfixPhrase), <<>>)>>,
                        <<Line("text", Chars(SystemPhrase), <<>>)>> },
     tier           : SpecTierNames,
     interface      : { <<>> },
     must_do        : Lists,
     must_not_do    : { <<>> },
     edge_cases     : { [c \in {} |-> <<>>], [c \in {W_empty} |-> W_raises] },
     preconditions  : { <<>> },
     postconditions : { <<>> },
     invariants     : { <<>> },
     validation     : {ValidationConfig(W_default, t, l) :
                          t \in {None, W_mypy}, l \in {None, Strip(W_ruff)}},
     target_path    : {None, W_path}]

InitPrompts == HoldingSpec(PromptSpecs)

\* SpecPromptBuilder().build_full_prompt(spec), which warns that it is
\* deprecated
BuildFullPrompt ==
    /\ spec_document # NoDoc
    /\ last_call' = Call("build_full_prompt",
                         [prompt  |-> build_full_prompt(spec_document),
                          warning |-> "DeprecationWarning"])
    /\ UNCHANGED <<parser_vars, tool_vars, spec_document, context, request, runner, reports,
                   dispatch_vars>>

NextPrompts ==
    \/ BuildFullPrompt
    \/ ToPromptContext

SpecPrompts == InitPrompts /\ [][NextPrompts]_vars

(***************************************************************************)
(* An eleventh specification: mask_output is called on a raw output of a   *)
(* few blocks of lines, for each CommandType.                              *)
(***************************************************************************)
MaxBlocks == 2

LongLen == 2500

HugeDigits == 5000

ManyLines == 25

ManyErrors == 12

RECURSIVE Repeat(_, _)
Repeat(l, times) == IF times = 0 THEN <<>> ELSE <<l>> \o Repeat(l, times - 1)

RECURSIVE Flatten(_)
Flatten(blocks) == IF blocks = <<>> THEN <<>> ELSE Head(blocks) \o Flatten(Tail(blocks))

RawLines ==
    { RawLine("blank", 0, 0), RawLine("spaces", 0, 0),
      RawLine("text", 3, 0), RawLine("text", LongLen, 0),
      RawLine("passed", 0, 1), RawLine("passed", 2, 1), RawLine("passed", 0, HugeDigits),
      RawLine("failed", 1, 1),
      RawLine("found", 0, 1), RawLine("found", 1, 1),
      RawLine("FAILED", 3, 0), RawLine("FAILED", LongLen, 0),
      RawLine("pyerror", 0, 0), RawLine("success", 0, 0),
      RawLine("mypy", 3, 0), RawLine("mypy", LongLen, 0),
      RawLine("lint", 0, 0) }

Blocks ==
    { <<l>> : l \in RawLines }
    \cup { Repeat(RawLine("text", 3, 0), ManyLines),
           Repeat(RawLine("mypy", LongLen, 0), ManyErrors) }

RawOutputs == { Flatten(bs) : bs \in SeqsUpTo(Blocks, MaxBlocks) }

CommandTypes == {"pytest", "mypy", "lint", "generic"}

NotMasked == [none |-> TRUE]

\* no markdown text, no document, no runner and no dispatcher are at work
NoSpecAtHand ==
    /\ ParserHolds({ <<>> })
    /\ spec_document = NoDoc
    /\ context = NotRendered
    /\ RunnerIdle
    /\ DispatcherIdle

InitMasker ==
    /\ NoSpecAtHand
    /\ masker \in [raw : RawOutputs, command_type : CommandTypes, out : {NotMasked}]
    /\ detector = DetectorIdle
    /\ guard = GuardIdle
    /\ workflow = WorkflowIdle

MaskOutput ==
    /\ masker # MaskerIdle
    /\ masker.out = NotMasked
    /\ masker' = [masker EXCEPT !.out = mask_output(masker.raw, masker.command_type)]
    /\ UNCHANGED <<parser_vars, phase_vars, detector, guard, workflow>>

NextMasker == MaskOutput

SpecMasker == InitMasker /\ [][NextMasker]_vars

(***************************************************************************)
(* mapper/detector.py: StackDetector.  A project directory gives, for each *)
(* config file name, whether the file exists, whether it can be read and   *)
(* the words of its text.                                                  *)
(***************************************************************************)
\* one entry of a dict, dicts keep the order of their entries
Entry(key, value) == [key |-> key, value |-> value]

Signals(lang, signals) == [lang |-> lang, signals |-> signals]

CONFIG_SIGNALS ==
    << Entry("pyproject.toml", Signals("python",
           << Entry("fastapi", "FastAPI"), Entry("flask", "Flask"),
              Entry("django", "Django"), Entry("pytest", "pytest"),
              Entry("ruff", "ruff"), Entry("mypy", "mypy"),
              Entry("pydantic", "Pydantic") >>)),
       Entry("requirements.txt", Signals("python",
           << Entry("fastapi", "FastAPI"), Entry("flask", "Flask"),
              Entry("django", "Django"), Entry("pytest", "pytest") >>)),
       Entry("package.json", Signals("javascript",
           << Entry("react", "React"), Entry("vue", "Vue"),
              Entry("next", "Next.js"), Entry("express", "Express"),
              Entry("typescript", "TypeScript") >>)),
       Entry("project.godot", Signals("gdscript", <<>>)),
       Entry("Cargo.toml", Signals("rust", <<>>)),
       Entry("go.mod", Signals("go", <<>>)) >>

\* the file does not exist
Absent == [exists |-> FALSE, readable |-> FALSE, words |-> {}]

\* a file that exists; read_text raises on one that is not readable
ConfigFile(readable, words) == [exists |-> TRUE, readable |-> readable, words |-> words]

StackInfo(language, frameworks, tools, package_manager) ==
    [language |-> language, frameworks |-> frameworks, tools |-> tools,
     package_manager |-> package_manager]

\* package_manager is None
NoManager == "<None>"

\* managers.get(config_file)
_infer_package_manager(config_file) ==
    CASE config_file = "pyproject.toml"   -> "pip"
      [] config_file = "requirements.txt" -> "pip"
      [] config_file = "package.json"     -> "npm"
      [] config_file = "Cargo.toml"       -> "cargo"
      [] config_file = "go.mod"           -> "go"
      [] OTHER                            -> NoManager

\* keyword in content, content being the text in lower case
KeywordIn(keyword, file) == \E w \in file.words : Lower(w) = Chars(keyword)

\* the names of the signals found in the file, those that are tools or not
Found(signals, file, tools) ==
    { signals[i].value : i \in { j \in 1..Len(signals) :
          /\ KeywordIn(signals[j].key, file)
          /\ (signals[j].value \in {"pytest", "ruff", "mypy"}) = tools } }

\* the loop of detect from entry i on; the lists are kept as sets, the
\* function returns them sorted and without repetition
RECURSIVE DetectFrom(_, _, _)
DetectFrom(i, info, files) ==
    IF i > Len(CONFIG_SIGNALS) THEN info
    ELSE LET config_file == CONFIG_SIGNALS[i].key
             lang        == CONFIG_SIGNALS[i].value.lang
             signals     == CONFIG_SIGNALS[i].value.signals
             file        == files[config_file]
         IN  IF ~file.exists THEN DetectFrom(i + 1, info, files)
             ELSE DetectFrom(i + 1,
                      StackInfo(lang,
                                info.frameworks \cup
                                    (IF file.readable THEN Found(signals, file, FALSE) ELSE {}),
                                info.tools \cup
                                    (IF file.readable THEN Found(signals, file, TRUE) ELSE {}),
                                _infer_package_manager(config_file)),
                      files)

detect(project_path) == DetectFrom(1, StackInfo("unknown", {}, {}, NoManager), project_path)

(***************************************************************************)
(* A twelfth specification: a StackDetector detects the stack of a project *)
(* directory with any of the six config files.                             *)
(***************************************************************************)
ConfigNames == { CONFIG_SIGNALS[i].key : i \in 1..Len(CONFIG_SIGNALS) }

\* the files a project may hold under a config file name
FilesFor(name) ==
    IF name \in {"pyproject.toml", "requirements.txt"}
    THEN {Absent, ConfigFile(FALSE, {}), ConfigFile(TRUE, {}), ConfigFile(TRUE, {Chars("Flask"), Chars("pytest")})}
    ELSE IF name = "package.json"
    THEN {Absent, ConfigFile(FALSE, {}), ConfigFile(TRUE, {Chars("react")})}
    ELSE {Absent, ConfigFile(TRUE, {})}

ProjectDirs == { f \in [ConfigNames -> UNION { FilesFor(n) : n \in ConfigNames }] :
                     \A n \in ConfigNames : f[n] \in FilesFor(n) }

NotDetected == [none |-> TRUE]

InitDetector ==
    /\ NoSpecAtHand
    /\ masker = MaskerIdle
    /\ detector \in [project_path : ProjectDirs, info : {NotDetected}]
    /\ guard = GuardIdle
    /\ workflow = WorkflowIdle

Detect ==
    /\ detector # DetectorIdle
    /\ detector.info = NotDetected
    /\ detector' = [detector EXCEPT !.info = detect(detector.project_path)]
    /\ UNCHANGED <<parser_vars, phase_vars, masker, guard, workflow>>

NextDetector == Detect

SpecDetector == InitDetector /\ [][NextDetector]_vars

(***************************************************************************)
(* server.py: DispatchGuard.  The guard keeps, per content hash, the task  *)
(* id and the time of the last record_dispatch; time.time() is a clock in  *)
(* seconds that does not run backwards.                                    *)
(***************************************************************************)
DEDUP_WINDOW == 300

\* md5(content.encode()).hexdigest()[:12]
content_hash(content) ==
    CASE content = "task 49591441" -> "6f9150df7fef"
      [] content = "task 67313676" -> "6f9150df7fef"
      [] content = "other"         -> "795f3202b17c"

\* check_duplicate returned None
NoResponse == [none |-> TRUE]

Duplicate(existing_id) ==
    [status  |-> "duplicate", task_id |-> existing_id,
     message |-> "Same task already dispatched. Use get_task_result to check status."]

\* DispatchGuard(): _recent_dispatches is empty
NoDispatches == [k \in {} |-> <<"", 0>>]

\* the dict with d[k] = v
DictSet(d, k, v) == [h \in DOMAIN d \cup {k} |-> IF h = k THEN v ELSE d[h]]

\* the entries of _recent_dispatches that check_duplicate keeps at time now
Pruned(recent, now) ==
    LET keep == {k \in DOMAIN recent : now - recent[k][2] < DEDUP_WINDOW}
    IN  [k \in keep |-> recent[k]]

\* check_duplicate(content) at time now: the dict it leaves and what it returns
check_duplicate(recent, content, now) ==
    LET kept == Pruned(recent, now)
    IN  [recent   |-> kept,
         response |-> IF content_hash(content) \in DOMAIN kept
                      THEN Duplicate(kept[content_hash(content)][1])
                      ELSE NoResponse]

\* record_dispatch(content, task_id) at time now
record_dispatch(recent, content, task_id, now) ==
    DictSet(recent, content_hash(content), <<task_id, now>>)

(***************************************************************************)
(* A thirteenth specification: a server records dispatches and checks      *)
(* contents for duplicates while time passes.                              *)
(***************************************************************************)
MaxTicks == 2

MaxRecords == 2

\* the seconds that pass between two calls
Steps == {1, DEDUP_WINDOW - 1}

Contents == {"task 49591441", "task 67313676", "other"}

TaskIds == {"t1", "t2"}

NotChecked == [none |-> TRUE]

InitGuard ==
    /\ NoSpecAtHand
    /\ masker = MaskerIdle
    /\ detector = DetectorIdle
    /\ guard = [now |-> 0, ticks |-> 0, recent |-> NoDispatches, records |-> {},
                last |-> NotChecked]
    /\ workflow = WorkflowIdle

\* time passes
Tick ==
    /\ guard # GuardIdle
    /\ guard.ticks < MaxTicks
    /\ \E d \in Steps :
           guard' = [guard EXCEPT !.now = @ + d, !.ticks = @ + 1]
    /\ UNCHANGED <<parser_vars, phase_vars, masker, detector, workflow>>

RecordDispatch ==
    /\ guard # GuardIdle
    /\ Cardinality(guard.records) < MaxRecords
    /\ \E content \in Contents, task_id \in TaskIds :
           guard' = [guard EXCEPT
                        !.recent = record_dispatch(@, content, task_id, guard.now),
                        !.records = @ \cup {[content |-> content, task_id |-> task_id,
                                             at |-> guard.now]}]
    /\ UNCHANGED <<parser_vars, phase_vars, masker, detector, workflow>>

CheckDuplicate ==
    /\ guard # GuardIdle
    /\ \E content \in Contents :
           LET out == check_duplicate(guard.recent, content, guard.now)
           IN  guard' = [guard EXCEPT
                            !.recent = out.recent,
                            !.last = [content |-> content, at |-> guard.now,
                                      before |-> guard.records,
                                      response |-> out.response, left |-> out.recent]]
    /\ UNCHANGED <<parser_vars, phase_vars, masker, detector, workflow>>

NextGuard == Tick \/ RecordDispatch \/ CheckDuplicate

SpecGuard == InitGuard /\ [][NextGuard]_vars

(***************************************************************************)
(* git/workflow.py: GitWorkflow.run.  The repository answers each git      *)
(* operation with success or failure; run is followed through the          *)
(* operations it attempts, in order, to the WorkflowResult it returns or   *)
(* the exception that leaves it.                                           *)
(***************************************************************************)
\* the attributes of a GitOperations object (git/operations.py)
GitOperationsMethods ==
    {"TIMEOUT", "_run", "get_diff", "stage_all", "commit", "push", "get_current_branch",
     "checkout", "merge", "delete_branch", "has_remote", "is_claude_branch",
     "cleanup_windows_artifacts", "ensure_gitignore", "_generate_gitignore"}

MAIN_BRANCHES == {"main", "master"}

\* current_branch is None, commit_message is None
NoBranch == "<None>"

NoMessage == "<None>"

\* str(branch) inside an f-string
BranchStr(branch) == IF branch = NoBranch THEN "None" ELSE branch

\* branch.startswith("claude/")
is_claude_branch(branch) ==
    Len(branch) >= Len("claude/") /\ SubSeq(branch, 1, Len("claude/")) = "claude/"

_get_main_branch == "main"

WorkflowResult(committed, pushed, merged, branch_cleaned, commit_message, errors) ==
    [committed |-> committed, pushed |-> pushed, merged |-> merged,
     branch_cleaned |-> branch_cleaned, commit_message |-> commit_message,
     errors |-> errors]

\* run ended: what it returned or raised, and the operations it attempted
Ended(result, ops) == [result |-> result, ops |-> ops]

AttributeError(name) == [raised |-> "AttributeError", name |-> name]

\* run from line 106 on: the branch decides what is pushed and merged
PushAndMerge(repo, commit_message, ops) ==
    LET branch == repo.branch
    IN  IF branch # NoBranch /\ is_claude_branch(branch)
        THEN LET pushed == repo.push_ok
                 errors1 == IF pushed THEN <<>>
                            ELSE <<"Failed to push branch " \o BranchStr(branch)>>
                 ops1 == ops \o <<"push", "checkout">>
             IN  IF ~repo.checkout_ok
                 THEN Ended(WorkflowResult(TRUE, pushed, FALSE, FALSE, commit_message,
                                errors1 \o <<"Failed to checkout " \o _get_main_branch>>),
                            ops1)
                 ELSE IF ~repo.merge_ok
                 THEN Ended(WorkflowResult(TRUE, pushed, FALSE, FALSE, commit_message,
                                errors1 \o <<"Failed to merge " \o BranchStr(branch)
                                             \o " into " \o _get_main_branch>>),
                            ops1 \o <<"merge">>)
                 ELSE Ended(WorkflowResult(TRUE, pushed, TRUE, repo.delete_ok, commit_message,
                                errors1
                                \o (IF repo.push_main_ok THEN <<>>
                                    ELSE <<"Failed to push " \o _get_main_branch>>)
                                \o (IF repo.delete_ok THEN <<>>
                                    ELSE <<"Failed to delete branch " \o BranchStr(branch)>>)),
                            ops1 \o <<"merge", "push", "delete_branch">>)
        ELSE IF branch \in MAIN_BRANCHES
        THEN Ended(WorkflowResult(TRUE, repo.push_ok, FALSE, FALSE, commit_message,
                       IF repo.push_ok THEN <<>> ELSE <<"Failed to push to remote">>),
                   ops \o <<"push">>)
        ELSE Ended(WorkflowResult(TRUE, repo.push_ok, FALSE, FALSE, commit_message,
                       IF repo.push_ok THEN <<>>
                       ELSE <<"Failed to push branch " \o BranchStr(branch)>>),
                   ops \o <<"push">>)

\* run from line 53 on, after cleanup_artifacts
StageAndCommit(repo, ops) ==
    LET ops1 == ops \o <<"ensure_gitignore">>
                \o (IF repo.gitignore_created THEN <<"get_diff">> ELSE <<>>)
                \o <<"stage_all">>
    IN  IF ~repo.stage_ok
        THEN Ended(WorkflowResult(FALSE, FALSE, FALSE, FALSE, NoMessage,
                                  <<"Failed to stage changes">>), ops1)
        ELSE IF ~repo.generate_ok
        THEN Ended(WorkflowResult(FALSE, FALSE, FALSE, FALSE, NoMessage,
                                  <<"Failed to generate commit message: error">>),
                   ops1 \o <<"generate">>)
        ELSE IF ~repo.commit_ok
        THEN Ended(WorkflowResult(FALSE, FALSE, FALSE, FALSE, "message",
                                  <<"Commit failed: error">>),
                   ops1 \o <<"generate", "commit">>)
        ELSE IF ~repo.has_remote
        THEN Ended(WorkflowResult(TRUE, FALSE, FALSE, FALSE, "message",
                                  <<"No remote configured, committed locally">>),
                   ops1 \o <<"generate", "commit", "has_remote">>)
        ELSE PushAndMerge(repo, "message",
                          ops1 \o <<"generate", "commit", "has_remote", "get_current_branch">>)

\* GitWorkflow(project_path).run() with a GitOperations of the given attributes
RunWith(methods, repo) ==
    IF ~repo.has_changes
    THEN Ended(WorkflowResult(FALSE, FALSE, FALSE, FALSE, NoMessage,
                              <<"No changes to commit">>), <<"get_diff">>)
    ELSE IF "cleanup_artifacts" \notin methods
    THEN Ended(AttributeError("cleanup_artifacts"), <<"get_diff">>)
    ELSE StageAndCommit(repo, <<"get_diff", "cleanup_artifacts">>)

run(repo) == RunWith(GitOperationsMethods, repo)

(***************************************************************************)
(* A fourteenth specification: GitWorkflow.run in a repository with any    *)
(* combination of outcomes of the git operations, on any branch.           *)
(***************************************************************************)
Branches == {NoBranch, "main", "master", "claude/task", "claude", "feature/claude/x"}

Repositories ==
    [has_changes : BOOLEAN, gitignore_created : BOOLEAN, stage_ok : BOOLEAN,
     generate_ok : BOOLEAN, commit_ok : BOOLEAN, has_remote : BOOLEAN,
     branch : Branches, push_ok : BOOLEAN, checkout_ok : BOOLEAN, merge_ok : BOOLEAN,
     push_main_ok : BOOLEAN, delete_ok : BOOLEAN]

NotRun == [none |-> TRUE]

InitWorkflow ==
    /\ NoSpecAtHand
    /\ masker = MaskerIdle
    /\ detector = DetectorIdle
    /\ guard = GuardIdle
    /\ workflow \in [repo : Repositories, ended : {NotRun}]

Run ==
    /\ workflow # WorkflowIdle
    /\ workflow.ended = NotRun
    /\ workflow' = [workflow EXCEPT !.ended = run(workflow.repo)]
    /\ UNCHANGED <<parser_vars, phase_vars, masker, detector, guard>>

NextWorkflow == Run

SpecWorkflow == InitWorkflow /\ [][NextWorkflow]_vars

(***************************************************************************)
(* Vocabulary of the properties                                            *)
(***************************************************************************)
Parsed == parse_out.status # "not_run"

Validated == validate_out.status # "not_run"

\* the words an error message contains
Mentions(error, word) ==
    CASE word = "header" -> error.template = HeaderError.template
      [] word = "tier"   -> error.template = TierError(<<>>).template
      [] word = "tests"  -> error.template = TestsError.template

\* the text has a line of the form ## Spec: <Name> [<TIER>]
HasHeader == \E i \in 1..Len(markdown) : markdown[i].kind = "header"

\* the tier token of the header (of the first one, when there are several)
HeaderTier ==
    markdown[Min({i \in 1..Len(markdown) : markdown[i].kind = "header"})].arg

\* the token equals HOTFIX, FEATURE or SYSTEM when case is ignored
IsTierName(token) == \E i \in 1..Len(SpecTier) : Lower(token) = Lower(SpecTier[i])

ValidHeader == HasHeader /\ IsTierName(HeaderTier)

\* the lines that are a ### Validation header
ValidationSections ==
    {i \in 1..Len(markdown) :
        markdown[i].kind = "section" /\ Strip(markdown[i].word) = W_Validation}

\* the lines of the section that starts at line i
LinesOf(i) ==
    {j \in (i + 1)..Len(markdown) :
        \A k \in (i + 1)..j : markdown[k].kind # "section"}

\* line j is a tests: key that carries a command
IsTestsCommand(j) ==
    /\ markdown[j].kind = "kv"
    /\ Lower(Strip(markdown[j].word)) = W_tests
    /\ Strip(markdown[j].arg) # <<>>

\* the section that starts at line i has no tests: key carrying a command
LacksTests(i) == \A j \in LinesOf(i) : ~IsTestsCommand(j)

DefaultValidation == ValidationConfig(W_default, None, None)

(***************************************************************************)
(* Properties                                                              *)
(***************************************************************************)
\* C1: validate_spec never raises: for every text it returns a
\* SpecValidationResult, no exception escapes it.
C1_ValidateNeverRaises == Validated => validate_out.status = "returned"

\* C2: every text validate_spec rejects (is_valid = false) makes
\* SpecParser.parse raise.
C2_RejectedImpliesParseRaises ==
    (Validated /\ Parsed /\ validate_out.status = "returned" /\ ~validate_out.is_valid)
        => parse_out.status = "raised"

\* C3: every text validate_spec accepts (is_valid = true) is parsed by
\* SpecParser.parse without an error, into a document equal to the result's spec.
C3_AcceptedParsesIdentically ==
    (Validated /\ Parsed /\ validate_out.status = "returned" /\ validate_out.is_valid)
        => (parse_out.status = "returned" /\ parse_out.doc = validate_out.spec)

C3_Witness ==
    /\ Validated /\ Parsed
    /\ validate_out.status = "returned" /\ validate_out.is_valid
    /\ ValidationSections # {}
    /\ validate_out.spec.validation # DefaultValidation

\* C4: every result validate_spec returns has is_valid = true exactly when
\* spec is not null and errors is empty, and is_valid = false exactly when
\* spec is null and errors is not empty.
C4_ComplementaryResult ==
    validate_out.status = "returned" =>
        /\ validate_out.is_valid <=>
               (validate_out.spec # NoDoc /\ validate_out.errors = <<>>)
        /\ (~validate_out.is_valid) <=>
               (validate_out.spec = NoDoc /\ validate_out.errors # <<>>)

C4_Witness ==
    /\ Parsed /\ parse_out.status = "returned"
    /\ validate_out.status = "returned" /\ ~validate_out.is_valid
    /\ validate_out.spec = NoDoc /\ validate_out.errors # <<>>

\* C5: a text with a valid header and a Validation section that has no tests:
\* key carrying a command is rejected by both: parse raises an error that
\* mentions tests, validate_spec returns is_valid = false with such an error.
C5_MissingTestsRejected ==
    (ValidHeader /\ ValidationSections # {} /\ \A i \in ValidationSections : LacksTests(i))
        => /\ Parsed =>
                  (parse_out.status = "raised" /\ Mentions(parse_out.error, "tests"))
           /\ Validated =>
                  (/\ validate_out.status = "returned"
                   /\ ~validate_out.is_valid
                   /\ \E k \in 1..Len(validate_out.errors) :
                          Mentions(validate_out.errors[k], "tests"))

\* C6: a text with a valid header and no Validation section is valid and gets
\* the default test command: parse returns a document whose validation is
\* tests = "pytest tests/ -v", typecheck and lint null, and validate_spec
\* returns is_valid = true with that same document.
C6_NoValidationUsesDefault ==
    (ValidHeader /\ ValidationSections = {})
        => /\ Parsed =>
                  (/\ parse_out.status = "returned"
                   /\ parse_out.doc.validation = DefaultValidation)
           /\ Validated =>
                  (/\ validate_out.status = "returned"
                   /\ validate_out.is_valid
                   /\ validate_out.spec.validation = DefaultValidation
                   /\ (Parsed => validate_out.spec = parse_out.doc))

C6_Witness ==
    /\ ValidHeader /\ ValidationSections = {}
    /\ \E i \in 1..Len(markdown) : markdown[i].kind = "section"
    /\ Parsed /\ Validated
    /\ validate_out.is_valid

\* C7: for a text with no header line (the empty text too) parse raises the
\* error that describes the header format, and validate_spec returns
\* is_valid = false, spec = null and an error that mentions the header.
C7_HeaderRejection ==
    ~HasHeader
        => /\ Parsed => (parse_out.status = "raised" /\ parse_out.error = HeaderError)
           /\ Validated =>
                  (/\ validate_out.status = "returned"
                   /\ ~validate_out.is_valid
                   /\ validate_out.spec = NoDoc
                   /\ \E k \in 1..Len(validate_out.errors) :
                          Mentions(validate_out.errors[k], "header"))

C7_Witness ==
    /\ ~HasHeader /\ ValidationSections # {}
    /\ Parsed /\ parse_out.status = "raised"
    /\ Validated /\ ~validate_out.is_valid

\* C8: a header whose tier token is not HOTFIX, FEATURE or SYSTEM in any case
\* makes parse raise a tier error that names the token (upper-cased, as it is
\* looked up) and lists HOTFIX, FEATURE, SYSTEM, and makes validate_spec return
\* is_valid = false with an error that mentions the tier; every case variant of
\* the three names is accepted: neither call reports a header or tier error,
\* and a parsed document carries the tier of that name.
C8_TierRejection ==
    HasHeader =>
        IF ~IsTierName(HeaderTier)
        THEN /\ Parsed =>
                    (/\ parse_out.status = "raised"
                     /\ Mentions(parse_out.error, "tier")
                     /\ Lower(parse_out.error.value) = Lower(HeaderTier)
                     /\ parse_out.error.tiers = <<W_HOTFIX, W_FEATURE, W_SYSTEM>>)
             /\ Validated =>
                    (/\ validate_out.status = "returned"
                     /\ ~validate_out.is_valid
                     /\ \E k \in 1..Len(validate_out.errors) :
                            Mentions(validate_out.errors[k], "tier"))
        ELSE /\ (Parsed /\ parse_out.status = "raised") =>
                    Mentions(parse_out.error, "tests")
             /\ (Parsed /\ parse_out.status = "returned") =>
                    (/\ parse_out.doc.tier \in SpecTierNames
                     /\ Lower(parse_out.doc.tier) = Lower(HeaderTier))
             /\ (Validated /\ validate_out.status = "returned") =>
                    \A k \in 1..Len(validate_out.errors) :
                        Mentions(validate_out.errors[k], "tests")
             /\ (Validated /\ validate_out.status = "raised") =>
                    Mentions(validate_out.error, "tests")

C8_Witness ==
    /\ HasHeader /\ HeaderTier = W_hotfixes
    /\ Parsed /\ parse_out.status = "raised"
    /\ Validated /\ ~validate_out.is_valid

\* C9: validate_spec collects every error: for a text with a header or tier
\* problem and a Validation section that lacks a tests command, the errors are
\* the header or tier error first and the tests error second.
C9_FailComplete ==
    (Validated /\ ~ValidHeader /\ \E i \in ValidationSections : LacksTests(i))
        => /\ validate_out.status = "returned"
           /\ Len(validate_out.errors) = 2
           /\ (Mentions(validate_out.errors[1], "header")
                  \/ Mentions(validate_out.errors[1], "tier"))
           /\ Mentions(validate_out.errors[2], "tests")

\* C10: parse raises on the first problem in the order header, tier, tests
\* command: with no header it raises the header error, with an unknown tier
\* the tier error, also when the Validation section lacks tests; the tests
\* error is raised only under a valid header; a raise produces no document.
C10_ParseFailFast ==
    Parsed =>
        /\ ~HasHeader => (parse_out.status = "raised" /\ parse_out.error = HeaderError)
        /\ (HasHeader /\ ~IsTierName(HeaderTier)) =>
               (parse_out.status = "raised" /\ Mentions(parse_out.error, "tier"))
        /\ (parse_out.status = "raised" /\ Mentions(parse_out.error, "tests")) => ValidHeader
        /\ parse_out.status = "raised" => parse_out.doc = NoDoc

C10_Witness ==
    /\ HasHeader /\ ~IsTierName(HeaderTier)
    /\ ValidationSections # {} /\ \A i \in ValidationSections : LacksTests(i)
    /\ Parsed /\ parse_out.status = "raised"

\* C11: validation.tests is a non-empty string after every successful parse
\* or validate: the document parse returns, and the spec of every result with
\* is_valid = true, carries a tests command that is neither null nor empty,
\* whether it came from the Validation block or from the default.
C11_TestsNonEmpty ==
    /\ (Parsed /\ parse_out.status = "returned") =>
           (/\ parse_out.doc.validation.tests # None
            /\ Strip(parse_out.doc.validation.tests) # <<>>)
    /\ (Validated /\ validate_out.status = "returned" /\ validate_out.is_valid) =>
           (/\ validate_out.spec.validation.tests # None
            /\ Strip(validate_out.spec.validation.tests) # <<>>)

C11_Witness ==
    /\ Parsed /\ parse_out.status = "returned"
    /\ Validated /\ validate_out.status = "returned" /\ validate_out.is_valid
    /\ parse_out.doc.validation.tests = Strip(W_pytest)
    /\ \E i \in 1..Len(markdown) : markdown[i].kind = "fence_open"

\* the lines that are an edge-case bullet, written with either arrow
EdgeBullets == {i \in 1..Len(markdown) : markdown[i].kind \in {"edge", "edge_u"}}

\* the entries the edge-case bullets of the text stand for: the trimmed case
\* mapped to the trimmed outcome, whichever arrow separates them (of two
\* bullets with one case the later counts)
EdgeEntries ==
    [c \in {Strip(markdown[i].word) : i \in EdgeBullets} |->
        Strip(markdown[Max({i \in EdgeBullets : Strip(markdown[i].word) = c})].arg)]

\* C12: the ASCII arrow and the arrow U+2192 are interchangeable: in the Edge
\* Cases section every bullet "- case <arrow> outcome" gives the entry of the
\* trimmed case and the trimmed outcome whichever arrow it is written with, a
\* bullet without an arrow gives no entry, and parse raises no error.
C12_ArrowTolerance ==
    Parsed => (parse_out.status = "returned" /\ parse_out.doc.edge_cases = EdgeEntries)

C12_Witness ==
    /\ Parsed /\ parse_out.status = "returned"
    /\ \E i, j, k \in 3..Len(markdown) :
           /\ markdown[i].kind = "edge" /\ markdown[j].kind = "edge_u"
           /\ markdown[i].word # markdown[j].word
           /\ markdown[k].kind = "bullet"
    /\ DOMAIN parse_out.doc.edge_cases = {W_empty, W_none}

\* C13: a section of an unrecognised name, added after the description,
\* between or after the sections, is ignored: parse gives what it gave for the
\* text without it (the same document, or the same error), and validate_spec
\* reports the same validity, the same errors and the same spec.
C13_UnknownSectionIgnored ==
    before # NoEdit =>
        /\ Parsed => parse_out = before.parse
        /\ Validated => validate_out = before.validate

C13_Witness ==
    /\ before # NoEdit
    /\ Parsed /\ parse_out.status = "returned"
    /\ Validated /\ validate_out.is_valid
    /\ parse_out.doc.validation # DefaultValidation
    /\ \E i \in 1..Len(markdown) :
           /\ markdown[i].kind = "section" /\ markdown[i].word = W_validation
           /\ i < Len(markdown) /\ markdown[i + 1].kind = "kv"
           /\ \E j \in (i + 1)..Len(markdown) : markdown[j].kind = "section"

\* the rendered text has the section header ## <word>
HeaderShown(word) ==
    \E i \in 1..Len(context) : context[i].kind = "h2" /\ context[i].word = word

\* C14: to_prompt_context omits empty sections entirely: the rendered text has
\* the header of a field (description, interface, must_do, must_not_do,
\* edge_cases, preconditions, postconditions, invariants, target_path) only if
\* that field is populated.
C14_NoEmptyHeaders ==
    context # NotRendered =>
        /\ HeaderShown(W_Description) => spec_document.description # <<>>
        /\ HeaderShown(W_Interface)   => spec_document.interface # <<>>
        /\ HeaderShown(W_MustDo)      => spec_document.must_do # <<>>
        /\ HeaderShown(W_MustNotDo)   => spec_document.must_not_do # <<>>
        /\ HeaderShown(W_EdgeCases)   => DOMAIN spec_document.edge_cases # {}
        /\ HeaderShown(W_Pre)         => spec_document.preconditions # <<>>
        /\ HeaderShown(W_Post)        => spec_document.postconditions # <<>>
        /\ HeaderShown(W_Invariants)  => spec_document.invariants # <<>>
        /\ HeaderShown(W_TargetPath)  => spec_document.target_path \notin {None, <<>>}

\* C15: a SpecDocument is immutable once constructed: no operation that
\* receives one (to_prompt_context, the prompt builders, the operations of
\* SpecPhaseRunner, of DispatchHandler and of TwoPhaseSpecDispatch) changes
\* any of its fields, in any sequence of calls.
C15_SpecDocumentImmutable ==
    [][spec_document # NoDoc => spec_document' = spec_document]_vars

\* the document has been rendered, the runner has gone through both phases
\* and run_spec has returned for it, and it is the document prepare built
C15_Witness ==
    /\ spec_document # NoDoc
    /\ spec_document = parse(markdown).doc
    /\ context = to_prompt_context(spec_document)
    /\ runner # NoRunner
    /\ runner.current_phase = "impl"
    /\ dispatch.entry = "run_spec"
    /\ dispatch.execution # NoExecution
    /\ dispatch.execution.success

\* C16: SpecPhaseRunner holds no phase-transition state: whatever completions
\* were reported, the runner is as it was constructed (no current phase moved
\* on, no test path tracked), and every request it hands out has phase "impl"
\* and no test path.
C16_RunnerStateless ==
    /\ runner # NoRunner => runner = SpecPhaseRunner
    /\ (last_call.op \in {"get_phase1_request", "get_phase2_request"}
            /\ last_call.value # NoPhaseRequest)
           => (last_call.value.phase = "impl" /\ last_call.value.test_path = None)

\* a phase-2 request or prompt was handed out
Phase2Yielded ==
    \/ last_call.op = "get_phase2_request" /\ last_call.value # NoPhaseRequest
    \/ last_call.op = "build_phase2_prompt" /\ last_call.value # NoPrompt

\* C17: phase 2 is only reachable after phase 1 reported success with a
\* concrete test path: get_phase2_request and build_phase2_prompt hand out a
\* request or a prompt only if a completion of phase 1 with success = true and
\* a non-empty test path was reported before.
C17_Phase2AfterPhase1 ==
    Phase2Yielded =>
        \E report \in reports : report.success /\ report.test_path \notin {None, <<>>}

\* the phases the CLI was invoked for, in order
Invoked == [i \in 1..Len(dispatch.cli_log) |-> dispatch.cli_log[i].phase]

\* C18: run_spec runs the phases strictly one after the other: the CLI of
\* phase 2 is never started before phase 1 has returned its result, the two
\* are never in progress together, and the invocations are separate and in
\* the order tests, impl.
C18_PhasesSequential ==
    dispatch.entry = "run_spec" =>
        /\ Cardinality(dispatch.running) <= 1
        /\ Invoked \in { <<"tests">>, <<"tests", "impl">> }
        /\ Invoked = <<"tests", "impl">> => dispatch.phase1 # NoPhaseResult
        /\ "impl" \in dispatch.running => dispatch.phase1 # NoPhaseResult
        /\ dispatch.phase2 # NoPhaseResult =>
               (Invoked = <<"tests", "impl">> /\ dispatch.running = {})

C18_Witness ==
    /\ dispatch.entry = "run_spec"
    /\ dispatch.pc = "phase2_cli"
    /\ dispatch.running = {"impl"}
    /\ dispatch.phase1 # NoPhaseResult

\* C19: phase 2 does not start when phase 1 fails: when run_phase1 returns
\* success = false, run_spec invokes no impl CLI and returns phase2 = None and
\* success = false; the overall success is true only if both phases succeeded.
C19_NoPhase2AfterFailure ==
    dispatch.entry = "run_spec" =>
        /\ (dispatch.phase1 # NoPhaseResult /\ ~dispatch.phase1.success) =>
               (/\ Invoked = <<"tests">>
                /\ dispatch.running = {}
                /\ dispatch.execution # NoExecution
                /\ dispatch.execution.phase2 = NoPhaseResult
                /\ ~dispatch.execution.success)
        /\ (dispatch.execution # NoExecution /\ dispatch.execution.success) =>
               (/\ dispatch.execution.phase1.success
                /\ dispatch.execution.phase2 # NoPhaseResult
                /\ dispatch.execution.phase2.success)

C19_Witness ==
    /\ dispatch.entry = "run_spec"
    /\ dispatch.pc = "done"
    /\ ~dispatch.phase1.success
    /\ dispatch.phase1.error \in CliErrors
    /\ dispatch.execution.phase2 = NoPhaseResult

\* the CLI of phase 1 returned success and wrote no file at the test path
NoTestFileGenerated ==
    /\ dispatch.entry \in {"run_spec", "run_phase1"}
    /\ dispatch.phase1 # NoPhaseResult
    /\ dispatch.cli1.success
    /\ ~project.generated

\* C20: a phase 1 that produces no test file fails with a clear error: when
\* the CLI of phase 1 succeeds but generates no file at the inferred test
\* path, run_phase1 returns success = false with the error "No tests
\* generated ...", and run_spec skips phase 2, whether or not a file was at
\* that path before the run.
C20_NoTestsIsFailure ==
    NoTestFileGenerated =>
        /\ ~dispatch.phase1.success
        /\ dispatch.phase1.error = NoTestsError(Dispatch_infer_test_path(spec_document))
        /\ dispatch.entry = "run_spec" => Invoked = <<"tests">>

\* C26: get_phase2_request returns None if phase 1 failed or no test path is
\* set: called right after the runner was built it returns None, called after
\* complete_phase1(success = false, ...) it returns None, and called after
\* complete_phase1(success = true, path) it returns a PhaseRequest with phase
\* "impl" that carries path.
C26_Phase2NoneAfterFailure ==
    [][last_call'.op = "get_phase2_request" =>
          /\ last_call.op = "prepare" => last_call'.value = NoPhaseRequest
          /\ (last_call.op = "complete_phase1" /\ ~last_call.value.success)
                 => last_call'.value = NoPhaseRequest
          /\ (last_call.op = "complete_phase1" /\ last_call.value.success)
                 => (/\ last_call'.value # NoPhaseRequest
                     /\ last_call'.value.phase = "impl"
                     /\ last_call'.value.test_path = last_call.value.test_path)]_vars

SlugChar(c) == IF c \in {" ", "-"} THEN "_" ELSE LowerChar(c)

\* tests/test_<slug>.py
ExpectedTestPath(name) ==
    <<"t","e","s","t","s","/","t","e","s","t","_">>
        \o [i \in 1..Len(name) |-> SlugChar(name[i])]
        \o <<".","p","y">>

FullPromptBuilt == last_call.op = "build_full_prompt"

\* the phrase is in a line of the text
PromptContains(prompt, phrase) == \E i \in 1..Len(prompt) : StrContains(prompt[i], phrase)

\* the text has the opening line of the guidance block of the tier
HasGuidanceOf(prompt, tier) ==
    \E i \in 1..Len(prompt) : StrContains(prompt[i], "**Tier: " \o Str(tier) \o "**")

\* the document's own rendered text has the phrase
ContextContains(phrase) ==
    PromptContains(StrLines(to_prompt_context(spec_document)), phrase)

FirstLine(prompt, phrase) ==
    LET at == {i \in 1..Len(prompt) : StrContains(prompt[i], phrase)}
    IN  IF at = {} THEN 0 ELSE Min(at)

\* C22: the single combined prompt has its steps in a fixed order with the
\* implementation first: the step that implements (it names the
\* implementation location) comes before the step that writes the tests (it
\* names the test file location), which comes before the step that validates
\* (it names the test command), and no line tells to write the tests before
\* implementing.
C22_ImplementFirst ==
    FullPromptBuilt =>
        LET prompt    == last_call.value.prompt
            implement == FirstLine(prompt, "Implementation location: ")
            tests     == FirstLine(prompt, "Test file location: ")
            validate  == FirstLine(prompt, "**Run Tests**: ")
        IN  /\ 0 < implement
            /\ implement < tests
            /\ tests < validate
            /\ ~PromptContains(prompt, "Write all tests BEFORE implementing")

\* the MaskedOutput a finished call of mask_output returned, its total size
Masked == masker # MaskerIdle /\ masker.out # NotMasked

TotalSize(output) ==
    SummaryLen(output.summary) + ErrorsSize(output.errors)
    + (IF output.raw_snippet = NoSnippet THEN 0 ELSE output.raw_snippet.chars)

\* C23: whatever the raw output and the command type, mask_output returns (no
\* exception leaves it, it does not return None) a MaskedOutput with a summary
\* of at least one character
C23_SummaryNeverEmpty ==
    Masked =>
        /\ masker.out # ValueErrorRaised
        /\ DOMAIN masker.out = {"summary", "errors", "raw_snippet"}
        /\ SummaryLen(masker.out.summary) > 0

\* a count too long for int() was in the output and mask_output returned
C23_Witness ==
    /\ Masked
    /\ masker.command_type = "pytest"
    /\ \E i \in 1..Len(masker.raw) : masker.raw[i].width > MaxStrDigits
    /\ masker.out.summary = <<"? Parse error">>

\* C24: the summary, the errors and the snippet of a MaskedOutput have less
\* than 2000 characters together
C24_TotalUnderLimit == Masked => TotalSize(masker.out) < _MAX_TOTAL_SIZE

\* C25: whenever project.godot exists in the project root, detect returns the
\* language gdscript, whichever other config files exist
C25_GodotPriority ==
    (/\ detector # DetectorIdle
     /\ detector.info # NotDetected
     /\ detector.project_path["project.godot"].exists)
    => detector.info.language = "gdscript"

\* a check_duplicate has returned; the record_dispatch calls made for a
\* content less than DEDUP_WINDOW seconds before the check
Checked == guard # GuardIdle /\ guard.last # NotChecked

RecentRecords(content) ==
    { r \in guard.last.before : /\ r.content = content
                                /\ guard.last.at - r.at < DEDUP_WINDOW }

\* C27: check_duplicate(content) returns a duplicate response exactly when
\* record_dispatch was called for the same content less than DEDUP_WINDOW
\* seconds earlier, with the task id of such a call; otherwise it returns None
C27_DuplicateIffRecorded ==
    Checked =>
        IF RecentRecords(guard.last.content) = {}
        THEN guard.last.response = NoResponse
        ELSE /\ guard.last.response # NoResponse
             /\ \E r \in RecentRecords(guard.last.content) :
                    guard.last.response = Duplicate(r.task_id)

\* the same for the contents with the hash of the checked content: the answer
\* is a duplicate exactly when one of them was recorded inside the window, and
\* the check leaves no entry that is DEDUP_WINDOW seconds old or older
SameHashRecords ==
    { r \in guard.last.before :
          /\ content_hash(r.content) = content_hash(guard.last.content)
          /\ guard.last.at - r.at < DEDUP_WINDOW }

DuplicateIffHashRecorded ==
    Checked =>
        /\ IF SameHashRecords = {}
           THEN guard.last.response = NoResponse
           ELSE /\ guard.last.response # NoResponse
                /\ \E r \in SameHashRecords : guard.last.response = Duplicate(r.task_id)
        /\ \A k \in DOMAIN guard.last.left :
               guard.last.at - guard.last.left[k][2] < DEDUP_WINDOW

\* run has ended; the operations it attempted
RunEnded == workflow # WorkflowIdle /\ workflow.ended # NotRun

Attempted(op) == \E i \in 1..Len(workflow.ended.ops) : workflow.ended.ops[i] = op

====
